---- MODULE Spec2Model ----
(***************************************************************************)
(* ConnectChain admin server: the product aggregate (product, attributes,  *)
(* variants, images), its update reconciler, the product listing and the   *)
(* order creation path, modelled from the service, controller, middleware  *)
(* and validation sources.                                                 *)
(*                                                                         *)
(* The relational store is the variable db (the prisma client), an         *)
(* interactive transaction works on the copy tx, and the external media    *)
(* store is the variable cloud (the set of stored public ids).             *)
(***************************************************************************)
EXTENDS Integers, Sequences, FiniteSets, TLC

VARIABLES db, cloud, call, tx, req, res, ord, cats, auth

vars == <<db, cloud, call, tx, req, res, ord, cats, auth>>

\* the state of the HTTP layer, of the order and category requests and of the
\* sessions
others == <<req, res, ord, cats, auth>>

(***************************************************************************)
(* Bounds of the model.                                                    *)
(***************************************************************************)
MaxOps == 2
MaxVarOps == 1
MaxFiles == 2
MaxRemove == 2

(***************************************************************************)
(* JavaScript values that are absent.  IDs are positive integers, so the   *)
(* falsy ID 0 stands for an ID that the request does not carry.            *)
(***************************************************************************)
Undef == "undefined"
Null == "null"
NoId == 0
NoNum == -1
NoErr == "none"

(***************************************************************************)
(* Image URLs.  A URL returned by the media store has the shape            *)
(* https://res.cloudinary.com/<cloud>/image/upload/<v>/<folder>/<name>.ext *)
(* and an object of the store is named by its public id <folder>/<name>.   *)
(***************************************************************************)
Url(host, folder, name) == [host |-> host, folder |-> folder, name |-> name]

PublicId(folder, name) == [folder |-> folder, name |-> name]

\* imageUrl.includes('cloudinary.com')
IsCloudinaryUrl(url) == url.host = "res.cloudinary.com"

\* Mutant: the folder prefix is left out of the derived public id
PublicIdWithoutFolder(url) == PublicId("", url.name)

\* `products/${urlParts[urlParts.length - 1].split('.')[0]}`
PublicIdFromUrl(url) == PublicId("products", url.name)

\* uploadToCloudinary(file.buffer, 'products', `product_${productId}_${Date.now()}_${index}`)
UploadedUrl(pid, index) == Url("res.cloudinary.com", "products", <<"product", pid, "now", index>>)

ImgA == Url("res.cloudinary.com", "products", <<"a">>)
ImgB == Url("example.com", "static", <<"b">>)
ImgC == Url("res.cloudinary.com", "products", <<"c">>)
ImgD == Url("res.cloudinary.com", "products", <<"d">>)

(***************************************************************************)
(* Rows of the store.                                                      *)
(***************************************************************************)
\* Name and SKU are sequences of characters, in lower case
ProductName(id) ==
    CASE id = 1 -> <<"p", "e", "n">>
      [] id = 2 -> <<"p", "e", "n", "s">>
      [] OTHER  -> <<"i", "n", "k">>

ProductSKU(id) ==
    CASE id = 1 -> <<"a", "1">>
      [] id = 2 -> <<"a", "2">>
      [] OTHER  -> <<"p", "3">>

\* Price is kept in hundredths, as the column is Decimal(18, 2)
Product(id, cat, stock, deleted) ==
    [ID |-> id, Name |-> ProductName(id), SKU |-> ProductSKU(id), CategoryId |-> cat,
     Price |-> 1000, Stock |-> stock, MinimumStock |-> 0,
     SupplierId |-> "s1", CustomerId |-> Null, Deleted |-> deleted]

Attribute(id, pid, key, value, deleted) ==
    [ID |-> id, ProductId |-> pid, Key |-> key, Value |-> value, Deleted |-> deleted]

Variant(id, pid, name, price, stock, deleted) ==
    [ID |-> id, ProductId |-> pid, Name |-> name, CustomPrice |-> price, Stock |-> stock,
     Deleted |-> deleted]

Image(id, pid, url, deleted) ==
    [ID |-> id, ProductId |-> pid, Url |-> url, Deleted |-> deleted]

\* a user who has never failed to log in and has never logged out
User(id, email, hash, confirmed) ==
    [Id |-> id, Email |-> email, PasswordHash |-> hash, EmailConfirmed |-> confirmed,
     AccessFailedCount |-> 0, LockoutEnabled |-> FALSE, LockoutEnd |-> NoNum, SecurityStamp |-> 0]

\* A store with two live products and a soft-deleted one; product 1 owns a
\* live and a soft-deleted child of every kind, product 2 owns live children.
InitDb ==
    [products   |-> {Product(1, 1, 5, FALSE), Product(2, 1, 0, FALSE), Product(3, 2, 4, TRUE)},
     categories |-> {[ID |-> 1, Name |-> "Electronics", Deleted |-> FALSE],
                     [ID |-> 2, Name |-> "Books", Deleted |-> FALSE]},
     suppliers  |-> {"s1"},
     customers  |-> {"c1"},
     users      |-> {User("u1", "a@x", <<"pbkdf2", "right">>, TRUE),
                     User("u2", "b@x", <<"pbkdf2", "right">>, FALSE)},
     attributes |-> {Attribute(1, 1, "Size", "M", FALSE),
                     Attribute(2, 1, "Brand", "Acme", TRUE),
                     Attribute(3, 2, "Size", "S", FALSE)},
     variants   |-> {Variant(1, 1, "Small", 10, 3, FALSE),
                     Variant(2, 1, "Large", 12, 0, TRUE),
                     Variant(3, 2, "Small", 10, 1, FALSE)},
     images     |-> {Image(1, 1, ImgA, FALSE), Image(2, 1, ImgB, FALSE),
                     Image(3, 1, ImgC, TRUE), Image(4, 2, ImgD, FALSE)},
     orders     |-> {},
     orderItems |-> {},
     nextAttr   |-> 4,
     nextVar    |-> 4,
     nextImg    |-> 5,
     nextOrder  |-> 1,
     nextItem   |-> 1,
     nextCat    |-> 3,
     nextStamp  |-> 1]

\* the object that a URL of the media store refers to
ObjectOf(url) == PublicId(url.folder, url.name)

InitCloud == {ObjectOf(ImgA), ObjectOf(ImgD)}

NoTx == [open |-> FALSE]

(***************************************************************************)
(* Request values.  A field of a request body is a number, a string or     *)
(* absent.                                                                 *)
(***************************************************************************)
NumV(n) == [t |-> "number", n |-> n, s |-> ""]
StrV(s) == [t |-> "string", n |-> 0, s |-> s]
UndefV == [t |-> "undefined", n |-> 0, s |-> ""]
NaN == -2

\* parseInt of the strings the model uses
ParseInt(s) ==
    CASE s = "7" -> 7
      [] s = "2" -> 2
      [] s = "29.99" -> 29
      [] s = "1e2" -> 1
      [] OTHER -> NaN

\* parseFloat of the strings the model uses, in hundredths
ParseFloat(s) ==
    CASE s = "7" -> 700
      [] s = "2" -> 200
      [] s = "29.99" -> 2999
      [] s = "1e2" -> 10000
      [] OTHER -> NaN

\* typeof v === 'number' ? v : parseFloat(v)
ToFloat(v) == IF v.t = "number" THEN v.n ELSE ParseFloat(v.s)

\* typeof v === 'number' ? v : parseInt(v)
ToInt(v) == IF v.t = "number" THEN v.n ELSE ParseInt(v.s)

\* JavaScript truthiness of a request value
Truthy(v) ==
    CASE v.t = "number" -> v.n # 0 /\ v.n # NaN
      [] v.t = "string" -> v.s # ""
      [] OTHER -> FALSE

\* productFields: the fields of the request body other than Attributes and Variants
NoFields ==
    [Price |-> UndefV, Stock |-> UndefV, MinimumStock |-> UndefV, CategoryId |-> UndefV,
     SupplierId |-> Undef, CustomerId |-> Undef]

Fields(stock, cat, supplier) ==
    [NoFields EXCEPT !.Stock = stock, !.CategoryId = cat, !.SupplierId = supplier]

ProductFieldsSet ==
    {Fields(UndefV, UndefV, Undef),
     Fields(NumV(7), UndefV, Undef),
     Fields(StrV("7"), UndefV, Undef),
     Fields(UndefV, NumV(2), Undef),
     Fields(UndefV, NumV(9), Undef),
     Fields(UndefV, UndefV, "s9")}

AttrOp(action, id, key, value) == [action |-> action, ID |-> id, Key |-> key, Value |-> value]

\* The attribute ops a request may carry: ID 1 is a live attribute of
\* product 1, ID 2 a soft-deleted one, ID 3 belongs to product 2 and ID 9
\* does not exist.
AttributeOps ==
    {AttrOp("create", NoId, "Color", "Red"),
     AttrOp(Undef, 1, "Color", "Blue"),
     AttrOp("update", 1, "Size", "L"),
     AttrOp("update", 1, "Size", "XL"),
     AttrOp("update", 2, "Brand", "Zed"),
     AttrOp("update", 3, "Size", "L"),
     AttrOp("update", 9, "Size", "L"),
     AttrOp("update", NoId, "Size", "L"),
     AttrOp("delete", 1, Undef, Undef),
     AttrOp("delete", 2, Undef, Undef),
     AttrOp("delete", 3, Undef, Undef),
     AttrOp("delete", 9, Undef, Undef),
     AttrOp("delete", NoId, Undef, Undef)}

VarOp(action, id, name, price, stock) ==
    [action |-> action, ID |-> id, Name |-> name, CustomPrice |-> price, Stock |-> stock]

VariantOps ==
    {VarOp("create", NoId, "Medium", 11, 2),
     VarOp(Undef, 1, "Medium", 11, 2),
     VarOp("update", 1, "Small", 9, 8),
     VarOp("update", 9, "Small", 9, 8),
     VarOp("delete", 1, Undef, NoNum, NoNum),
     VarOp("delete", 3, Undef, NoNum, NoNum),
     VarOp("delete", NoId, Undef, NoNum, NoNum)}

NoOp == AttrOp("none", NoId, Undef, Undef)

RequestUrls == {ImgA, ImgB, ImgD}

ImagesToDeleteSet == {S \in SUBSET RequestUrls : Cardinality(S) <= MaxRemove}

ProductIdSet == {1, 3, 9}

(***************************************************************************)
(* The steps of the transaction of updateProductService.  Each takes the   *)
(* tables t of the transaction and returns the outcome [ok, t].            *)
(***************************************************************************)
Ok(t) == [ok |-> TRUE, t |-> t]
Raise(t) == [ok |-> FALSE, t |-> t]

\* a value that is undefined in the data of a prisma write is left out
Given(new, old) == IF new = Undef THEN old ELSE new
GivenNum(new, old) == IF new = NoNum THEN old ELSE new

\* tx.products.update({ where: { ID: productId }, data: { ...coerced fields } })
UpdateProductFields(t, pid, f) ==
    LET price == IF f.Price.t = "undefined" THEN NoNum ELSE ToFloat(f.Price)
        stock == IF f.Stock.t = "undefined" THEN NoNum ELSE ToInt(f.Stock)
        min   == IF f.MinimumStock.t = "undefined" THEN NoNum ELSE ToInt(f.MinimumStock)
        cat   == IF f.CategoryId.t = "undefined" THEN NoNum ELSE ToInt(f.CategoryId)
        upd(p) == [p EXCEPT !.Price = GivenNum(price, @),
                            !.Stock = GivenNum(stock, @),
                            !.MinimumStock = GivenNum(min, @),
                            !.CategoryId = GivenNum(cat, @),
                            !.SupplierId = Given(f.SupplierId, @),
                            !.CustomerId = Given(f.CustomerId, @)]
    IN  IF \/ ~\E p \in t.products : p.ID = pid
           \/ NaN \in {price, stock, min, cat}
           \/ (cat # NoNum /\ ~\E c \in t.categories : c.ID = cat)
           \/ (f.SupplierId # Undef /\ f.SupplierId \notin t.suppliers)
           \/ (f.CustomerId # Undef /\ f.CustomerId \notin t.customers)
        THEN Raise(t)
        ELSE Ok([t EXCEPT !.products = {IF p.ID = pid THEN upd(p) ELSE p : p \in t.products}])

\* the error that tx.products.update raises: P2025 when no row has the ID, a
\* validation error of the client for NaN, P2003 for a broken foreign key
UpdateFieldsError(t, pid, f) ==
    IF ~\E p \in t.products : p.ID = pid THEN "Record not found"
    ELSE IF \E k \in {"Price", "Stock", "MinimumStock", "CategoryId"} :
               f[k].t = "string" /\ (IF k = "Price" THEN ParseFloat(f[k].s) ELSE ParseInt(f[k].s)) = NaN
    THEN "Invalid value"
    ELSE "Foreign key constraint failed"

RECURSIVE InsertImages(_, _, _)
\* tx.images.createMany({ data: newImageUrls.map(url => ({ Url: url, ProductId: productId, Deleted: false })) })
InsertImages(t, pid, urls) ==
    IF urls = <<>> THEN t
    ELSE InsertImages([t EXCEPT !.images = @ \cup {Image(t.nextImg, pid, Head(urls), FALSE)},
                                !.nextImg = @ + 1],
                      pid, Tail(urls))

CreateImages(t, pid, urls) == Ok(InsertImages(t, pid, urls))

\* Mutant: the updateMany of the images has no condition on ProductId
SoftDeleteImagesOfAnyProduct(t, pid, urls) ==
    Ok([t EXCEPT !.images =
          {IF r.Url \in urls /\ ~r.Deleted
           THEN [r EXCEPT !.Deleted = TRUE] ELSE r : r \in t.images}])

\* tx.images.updateMany({ where: { ProductId, Url: { in: imagesToDelete }, Deleted: false }, data: { Deleted: true } })
SoftDeleteImages(t, pid, urls) ==
    Ok([t EXCEPT !.images =
          {IF r.ProductId = pid /\ r.Url \in urls /\ ~r.Deleted
           THEN [r EXCEPT !.Deleted = TRUE] ELSE r : r \in t.images}])

\* the action of an op read without the default
ActionOfExplicit(op) == op.action

\* const action = attribute._action || 'create'
ActionOf(op) == IF op.action = Undef THEN "create" ELSE op.action

\* a nullable column stores null for a value the request does not carry
OrNull(v) == IF v = Undef THEN Null ELSE v

\* Mutant: update and delete written with updateMany, which never raises
ApplyAttributeOpLenient(t, pid, op) ==
    LET action == ActionOf(op)
        live   == {r \in t.attributes : r.ID = op.ID /\ r.ProductId = pid /\ ~r.Deleted}
        owned  == {r \in t.attributes : r.ID = op.ID /\ r.ProductId = pid}
    IN  CASE action = "create" ->
               Ok([t EXCEPT !.attributes =
                       @ \cup {Attribute(t.nextAttr, pid, OrNull(op.Key), OrNull(op.Value), FALSE)},
                            !.nextAttr = @ + 1])
          [] action = "update" /\ op.ID # NoId ->
               Ok([t EXCEPT !.attributes =
                       {IF r \in live
                        THEN [r EXCEPT !.Key = Given(op.Key, @), !.Value = Given(op.Value, @)]
                        ELSE r : r \in t.attributes}])
          [] action = "delete" /\ op.ID # NoId ->
               Ok([t EXCEPT !.attributes =
                       {IF r \in owned THEN [r EXCEPT !.Deleted = TRUE] ELSE r : r \in t.attributes}])
          [] OTHER -> Ok(t)

\* the body of the loop over Attributes
ApplyAttributeOp(t, pid, op) ==
    LET action == ActionOf(op)
        live   == {r \in t.attributes : r.ID = op.ID /\ r.ProductId = pid /\ ~r.Deleted}
        owned  == {r \in t.attributes : r.ID = op.ID /\ r.ProductId = pid}
    IN  CASE action = "create" ->
               Ok([t EXCEPT !.attributes =
                       @ \cup {Attribute(t.nextAttr, pid, OrNull(op.Key), OrNull(op.Value), FALSE)},
                            !.nextAttr = @ + 1])
          [] action = "update" /\ op.ID # NoId ->
               IF live = {} THEN Raise(t)
               ELSE Ok([t EXCEPT !.attributes =
                       {IF r \in live
                        THEN [r EXCEPT !.Key = Given(op.Key, @), !.Value = Given(op.Value, @)]
                        ELSE r : r \in t.attributes}])
          [] action = "delete" /\ op.ID # NoId ->
               IF owned = {} THEN Raise(t)
               ELSE Ok([t EXCEPT !.attributes =
                       {IF r \in owned THEN [r EXCEPT !.Deleted = TRUE] ELSE r : r \in t.attributes}])
          [] OTHER -> Ok(t)

\* the body of the loop over Variants
ApplyVariantOp(t, pid, op) ==
    LET action == ActionOf(op)
        live   == {r \in t.variants : r.ID = op.ID /\ r.ProductId = pid /\ ~r.Deleted}
        owned  == {r \in t.variants : r.ID = op.ID /\ r.ProductId = pid}
    IN  CASE action = "create" ->
               IF op.CustomPrice = NoNum \/ op.Stock = NoNum THEN Raise(t)
               ELSE Ok([t EXCEPT !.variants =
                       @ \cup {Variant(t.nextVar, pid, OrNull(op.Name), op.CustomPrice, op.Stock, FALSE)},
                            !.nextVar = @ + 1])
          [] action = "update" /\ op.ID # NoId ->
               IF live = {} THEN Raise(t)
               ELSE Ok([t EXCEPT !.variants =
                       {IF r \in live
                        THEN [r EXCEPT !.Name = Given(op.Name, @),
                                       !.CustomPrice = GivenNum(op.CustomPrice, @),
                                       !.Stock = GivenNum(op.Stock, @)]
                        ELSE r : r \in t.variants}])
          [] action = "delete" /\ op.ID # NoId ->
               IF owned = {} THEN Raise(t)
               ELSE Ok([t EXCEPT !.variants =
                       {IF r \in owned THEN [r EXCEPT !.Deleted = TRUE] ELSE r : r \in t.variants}])
          [] OTHER -> Ok(t)

\* tx.products.findUnique({ where: { ID }, include: { Images / ProductAttribute /
\* ProductVariant: { where: { Deleted: false } } } })
FindProductWithLiveChildren(t, pid) ==
    LET p == CHOOSE q \in t.products : q.ID = pid
    IN  [product    |-> p,
         Images     |-> {r \in t.images : r.ProductId = pid /\ ~r.Deleted},
         Attributes |-> {r \in t.attributes : r.ProductId = pid /\ ~r.Deleted},
         Variants   |-> {r \in t.variants : r.ProductId = pid /\ ~r.Deleted}]

NoResult == [none |-> TRUE]


(***************************************************************************)
(* updateProductService(productId, updateData, imageFiles, imagesToDelete) *)
(***************************************************************************)
Range(q) == {q[i] : i \in DOMAIN q}

IdleCall ==
    [pc |-> "idle", pid |-> NoId, fields |-> NoFields,
     imagesToDelete |-> {}, newImageUrls |-> <<>>, uploaded |-> {}, toPurge |-> {},
     step |-> "none", nAttr |-> 0, nVar |-> 0, curOp |-> NoOp, err |-> NoErr,
     thrown |-> NoErr, result |-> NoResult, before |-> InitDb, destroyed |-> {}, nFiles |-> 0,
     committed |-> FALSE]

\* Mutant: the writes are made on the client, outside any transaction
PersistedWithoutTx(before, outcome) == outcome.t

\* prisma.$transaction(async (tx) => { ... }): the writes of the callback are
\* kept when it returns and discarded when it throws
Persisted(before, outcome) == IF outcome.ok THEN outcome.t ELSE before

\* the lookups made before the try block: the product (whatever its Deleted
\* flag), then the referenced category and supplier
LookupError(d, pid, f) ==
    CASE ~\E p \in d.products : p.ID = pid -> "Product not found"
      [] Truthy(f.CategoryId) /\ ~\E c \in d.categories : c.ID = ToInt(f.CategoryId)
            -> "Category not found"
      [] f.SupplierId # Undef /\ f.SupplierId \notin d.suppliers -> "Supplier not found"
      [] OTHER -> NoErr

\* public id under which upload number index of the call is stored
UploadedPublicId(pid, index) == PublicId("products", UploadedUrl(pid, index).name)

\* imagesToDelete that are live images of the product and hosted by the media store
ImagesToDeleteFromCloudinary(d, pid, urls) ==
    {u \in urls : /\ \E r \in d.images : r.ProductId = pid /\ ~r.Deleted /\ r.Url = u
                  /\ IsCloudinaryUrl(u)}

\* Mutant: a rejected upload does not reject Promise.all
AllUploadedOrNot(ok, nFiles) == ok \subseteq 0 .. nFiles - 1

\* newImageUrls = await Promise.all(uploadPromises): fulfilled when every
\* upload was
AllUploaded(ok, nFiles) == ok = 0 .. nFiles - 1

\* Lines 367-438: lookups, then the uploads (Promise.all over the files; ok
\* is the set of uploads that the media store accepted).
UpdateProductBegin(pid, f, nFiles, urls, ok) ==
    /\ call.pc = "idle"
    /\ LET e == LookupError(db, pid, f)
           allOk == AllUploaded(ok, nFiles)
           c0 == [call EXCEPT !.pid = pid, !.fields = f, !.imagesToDelete = urls,
                              !.before = db, !.nFiles = nFiles,
                              !.uploaded = {UploadedPublicId(pid, i) : i \in ok}]
       IN  IF e # NoErr
           THEN /\ call' = [call EXCEPT !.pc = "done", !.pid = pid, !.fields = f,
                                        !.imagesToDelete = urls, !.before = db, !.err = e,
                                        !.thrown = e]
                /\ UNCHANGED <<db, cloud, tx, others>>
           ELSE /\ cloud' = cloud \cup {UploadedPublicId(pid, i) : i \in ok}
                /\ IF allOk
                   THEN /\ call' = [c0 EXCEPT
                               !.pc = "tx", !.step = "fields",
                               !.newImageUrls = [i \in 1 .. nFiles |-> UploadedUrl(pid, i - 1)],
                               !.toPurge = ImagesToDeleteFromCloudinary(db, pid, urls)]
                        /\ tx' = db
                   ELSE /\ call' = [c0 EXCEPT !.pc = "catch", !.err = "Failed to upload"]
                        /\ tx' = tx
                /\ UNCHANGED <<db, others>>

\* a step of the transaction callback threw: the transaction is rolled back
\* and control passes to the catch block
TxRaise(partial, e, op) ==
    /\ db' = Persisted(db, Raise(partial))
    /\ tx' = NoTx
    /\ call' = [call EXCEPT !.pc = "catch", !.err = e, !.curOp = op, !.step = "none"]
    /\ UNCHANGED <<cloud, others>>

TxNext(outcome, nextStep, op) ==
    IF outcome.ok
    THEN /\ tx' = outcome.t
         /\ call' = [call EXCEPT !.step = nextStep, !.curOp = op]
         /\ UNCHANGED <<db, cloud, others>>
    ELSE TxRaise(outcome.t, "Record not found", op)

TxUpdateFields ==
    /\ call.pc = "tx" /\ call.step = "fields"
    /\ TxNext(UpdateProductFields(tx, call.pid, call.fields), "imgCreate", NoOp)

TxCreateImages ==
    /\ call.pc = "tx" /\ call.step = "imgCreate"
    /\ TxNext(IF Len(call.newImageUrls) > 0
              THEN CreateImages(tx, call.pid, call.newImageUrls) ELSE Ok(tx),
              "imgDelete", NoOp)

TxSoftDeleteImages ==
    /\ call.pc = "tx" /\ call.step = "imgDelete"
    /\ TxNext(IF call.imagesToDelete # {}
              THEN SoftDeleteImages(tx, call.pid, call.imagesToDelete) ELSE Ok(tx),
              "attrs", NoOp)

TxAttribute(op) ==
    /\ call.pc = "tx" /\ call.step = "attrs" /\ call.nAttr < MaxOps
    /\ LET outcome == ApplyAttributeOp(tx, call.pid, op)
       IN  IF outcome.ok
           THEN /\ tx' = outcome.t
                /\ call' = [call EXCEPT !.nAttr = @ + 1, !.curOp = op]
                /\ UNCHANGED <<db, cloud, others>>
           ELSE TxRaise(outcome.t, "Record not found", op)

TxAttributesDone ==
    /\ call.pc = "tx" /\ call.step = "attrs"
    /\ TxNext(Ok(tx), "variants", NoOp)

TxVariant(op) ==
    /\ call.pc = "tx" /\ call.step = "variants" /\ call.nVar < MaxVarOps
    /\ LET outcome == ApplyVariantOp(tx, call.pid, op)
       IN  IF outcome.ok
           THEN /\ tx' = outcome.t
                /\ call' = [call EXCEPT !.nVar = @ + 1, !.curOp = op]
                /\ UNCHANGED <<db, cloud, others>>
           ELSE TxRaise(outcome.t, "Record not found", op)

TxVariantsDone ==
    /\ call.pc = "tx" /\ call.step = "variants"
    /\ TxNext(Ok(tx), "find", NoOp)

\* the final findUnique of the callback, then the commit
TxCommit ==
    /\ call.pc = "tx" /\ call.step = "find"
    /\ db' = Persisted(db, Ok(tx))
    /\ tx' = NoTx
    /\ call' = [call EXCEPT !.pc = "purge", !.step = "none", !.curOp = NoOp, !.committed = TRUE,
                            !.result = FindProductWithLiveChildren(tx, call.pid)]
    /\ UNCHANGED <<cloud, others>>

\* the store rejects a statement of the transaction (connection lost,
\* timeout, deadlock victim): the awaited call throws
TxFault ==
    /\ call.pc = "tx"
    /\ TxRaise(tx, "Database error", NoOp)

\* deleteFromCloudinary for each public id of ids; the calls of failed throw
\* and are only logged
DestroyAll(ids, failed, e) ==
    /\ cloud' = cloud \ (ids \ failed)
    /\ call' = [call EXCEPT !.pc = "done", !.destroyed = @ \cup ids, !.thrown = e]

\* Mutant: a destroy that fails after the commit is rethrown
PurgeErrorRethrown(failed) == IF failed = {} THEN NoErr ELSE "Failed to delete"

\* catch (deleteError) { console.warn(...) }: the error of a destroy after
\* the commit is logged and dropped
PurgeError(failed) == NoErr

\* Lines 638-653: after the commit, purge the removed images, return the product
PurgeRemovedImages(failed) ==
    /\ call.pc = "purge"
    /\ failed \subseteq {PublicIdFromUrl(u) : u \in call.toPurge}
    /\ DestroyAll({PublicIdFromUrl(u) : u \in call.toPurge}, failed, PurgeError(failed))
    /\ UNCHANGED <<db, tx, others>>

\* Mutant: the catch block walks the list of images to purge as well
CleanupUploadsAndRemoved(failed) ==
    /\ call.pc = "catch"
    /\ LET ids == {PublicIdFromUrl(u) :
                     u \in {v \in Range(call.newImageUrls) \cup call.toPurge : IsCloudinaryUrl(v)}}
       IN  /\ failed \subseteq ids
           /\ DestroyAll(ids, failed, call.err)
    /\ UNCHANGED <<db, tx, others>>

\* Lines 655-672: the catch block deletes the uploads of this call, rethrows
CleanupUploads(failed) ==
    /\ call.pc = "catch"
    /\ LET ids == {PublicIdFromUrl(u) : u \in {v \in Range(call.newImageUrls) : IsCloudinaryUrl(v)}}
       IN  /\ failed \subseteq ids
           /\ DestroyAll(ids, failed, call.err)
    /\ UNCHANGED <<db, tx, others>>

NoReq == [kind |-> "none"]
NoRes == [next |-> "none"]
NoOrders == <<>>
NoCategoryCalls == <<>>

UserIdSet == {"u1", "u2"}

\* no login or logout is in flight, no token has been issued, and the clock
\* is at 0
NoSessions ==
    [now |-> 0, attempts |-> 0, pending |-> {}, wrong |-> [id \in UserIdSet |-> 0],
     tokens |-> {}, logoutCalls |-> 0, loggingOut |-> [id \in UserIdSet |-> 0], logouts |-> [id \in UserIdSet |-> 0],
     last |-> [kind |-> "none"]]

Init ==
    /\ db = InitDb
    /\ cloud = InitCloud
    /\ call = IdleCall
    /\ tx = NoTx
    /\ req = NoReq
    /\ res = NoRes
    /\ ord = NoOrders
    /\ cats = NoCategoryCalls
    /\ auth = NoSessions

Next ==
    \/ \E pid \in ProductIdSet, f \in ProductFieldsSet, n \in 0 .. MaxFiles,
          urls \in ImagesToDeleteSet :
          \E ok \in SUBSET (0 .. n - 1) : UpdateProductBegin(pid, f, n, urls, ok)
    \/ TxUpdateFields
    \/ TxCreateImages
    \/ TxSoftDeleteImages
    \/ \E op \in AttributeOps : TxAttribute(op)
    \/ TxAttributesDone
    \/ \E op \in VariantOps : TxVariant(op)
    \/ TxVariantsDone
    \/ TxCommit
    \/ TxFault
    \/ \E failed \in SUBSET cloud : PurgeRemovedImages(failed)
    \/ \E failed \in SUBSET cloud : CleanupUploads(failed)

Spec == Init /\ [][Next]_vars


(***************************************************************************)
(* PUT /api/products/:id -- validation(updateProductSchema, 'body'), the   *)
(* controller updateProduct and updateProductService, for one request.     *)
(***************************************************************************)
ArrV(q) == [t |-> "array", n |-> 0, s |-> "", arr |-> q]

\* a string that holds the JSON text of the array q
JsonStr(q) == [t |-> "string", n |-> 0, s |-> "json", arr |-> q]

IsJsonText(v) == v.t = "string" /\ v.s = "json"

\* JSON.parse(v)
JsonParse(v) == ArrV(v.arr)

BodyKeys ==
    {"Price", "Stock", "MinimumStock", "CategoryId", "CustomerId", "Attributes", "Variants",
     "imagesToDelete", "file"}

EmptyBody == [k \in BodyKeys |-> UndefV]

\* the keys that updateProductSchema declares
UpdateProductSchemaKeys ==
    {"Price", "Stock", "MinimumStock", "CategoryId", "CustomerId", "Attributes", "Variants"}

\* parseFormDataFields(data)
ParseFormDataFields(data) ==
    LET removed == [k \in BodyKeys |->
                       IF data[k] = StrV("undefined") THEN UndefV ELSE data[k]]
        parsed  == [k \in BodyKeys |->
                       IF /\ k \in {"Attributes", "Variants", "imagesToDelete"}
                          /\ Truthy(removed[k]) /\ IsJsonText(removed[k])
                       THEN JsonParse(removed[k]) ELSE removed[k]]
        num(k)  == IF k = "Price" THEN ParseFloat(parsed[k].s) ELSE ParseInt(parsed[k].s)
    IN  [k \in BodyKeys |->
            IF /\ k \in {"Price", "Stock", "MinimumStock", "CategoryId"}
               /\ parsed[k].t = "string" /\ Truthy(parsed[k]) /\ num(k) # NaN
            THEN NumV(num(k)) ELSE parsed[k]]

\* the number that Joi.number() reads from a value, in hundredths for Price
JoiNumber(k, v) ==
    CASE v.t = "number" -> v.n
      [] v.t = "string" /\ ~IsJsonText(v) ->
            IF k = "Price" THEN ParseFloat(v.s)
            ELSE IF ParseFloat(v.s) # NaN /\ ParseFloat(v.s) % 100 = 0
                 THEN ParseFloat(v.s) \div 100 ELSE NaN
      [] OTHER -> NaN

\* an item of Attributes: Key and Value are required strings, ID and _action optional
ValidAttributeItem(op) ==
    /\ op.Key # Undef /\ op.Value # Undef
    /\ op.action \in {"create", "update", "delete", Undef}

\* an item of Variants: CustomPrice and Stock are required numbers
ValidVariantItem(op) ==
    /\ op.CustomPrice # NoNum /\ op.Stock # NoNum
    /\ op.action \in {"create", "update", "delete", Undef}

\* schema.validate(data, { abortEarly: false }) has no error
SchemaAccepts(data) ==
    /\ \A k \in BodyKeys \ UpdateProductSchemaKeys : data[k].t = "undefined"
    /\ \A k \in {"Price", "Stock", "MinimumStock"} :
          data[k].t # "undefined" => (JoiNumber(k, data[k]) # NaN /\ JoiNumber(k, data[k]) >= 0)
    /\ data.CategoryId.t # "undefined" =>
          (JoiNumber("CategoryId", data.CategoryId) # NaN /\ JoiNumber("CategoryId", data.CategoryId) >= 1)
    /\ data.CustomerId \in {UndefV, StrV(""), StrV("c1"), StrV("c9")}
    /\ data.Attributes.t # "undefined" =>
          (data.Attributes.t = "array" /\
           \A i \in DOMAIN data.Attributes.arr : ValidAttributeItem(data.Attributes.arr[i]))
    /\ data.Variants.t # "undefined" =>
          (data.Variants.t = "array" /\
           \A i \in DOMAIN data.Variants.arr : ValidVariantItem(data.Variants.arr[i]))

\* validation(schema, 'body')(req, res, next): the outcome of next and req.body
\* as the next handler finds it
Validation(body, nFiles) ==
    LET withFile == IF nFiles > 0 THEN [body EXCEPT !.file = ArrV(<<>>)] ELSE body
        data     == IF nFiles > 0 THEN ParseFormDataFields(withFile) ELSE withFile
    IN  [error |-> ~SchemaAccepts(data), body |-> body]

RECURSIVE ApplyAttributeOps(_, _, _)
ApplyAttributeOps(t, pid, ops) ==
    IF ops = <<>> THEN Ok(t)
    ELSE LET o == ApplyAttributeOp(t, pid, Head(ops))
         IN  IF o.ok THEN ApplyAttributeOps(o.t, pid, Tail(ops)) ELSE o

RECURSIVE ApplyVariantOps(_, _, _)
ApplyVariantOps(t, pid, ops) ==
    IF ops = <<>> THEN Ok(t)
    ELSE LET o == ApplyVariantOp(t, pid, Head(ops))
         IN  IF o.ok THEN ApplyVariantOps(o.t, pid, Tail(ops)) ELSE o

\* Attributes && Array.isArray(Attributes)
OpsOf(v) == IF v.t = "array" THEN v.arr ELSE <<>>

StrOrUndef(v) == IF v.t = "string" THEN v.s ELSE Undef

\* const { Attributes, Variants, ...productFields } = updateData
ProductFieldsOf(body) ==
    [Price |-> body.Price, Stock |-> body.Stock, MinimumStock |-> body.MinimumStock,
     CategoryId |-> body.CategoryId, SupplierId |-> Undef,
     CustomerId |-> StrOrUndef(body.CustomerId)]

\* updateProductService(productId, updateData, null, null): no files and no
\* images to delete, so the call is the lookups and the transaction
UpdateProductService(d, pid, body) ==
    LET f  == ProductFieldsOf(body)
        e  == LookupError(d, pid, f)
        o1 == UpdateProductFields(d, pid, f)
        o2 == IF o1.ok THEN ApplyAttributeOps(o1.t, pid, OpsOf(body.Attributes)) ELSE o1
        o3 == IF o2.ok THEN ApplyVariantOps(o2.t, pid, OpsOf(body.Variants)) ELSE o2
    IN  IF e # NoErr THEN [err |-> e, db |-> d, product |-> NoResult]
        ELSE IF ~o1.ok THEN [err |-> UpdateFieldsError(d, pid, f), db |-> Persisted(d, o1),
                             product |-> NoResult]
        ELSE IF ~o3.ok THEN [err |-> "Record not found", db |-> Persisted(d, o3), product |-> NoResult]
        ELSE [err |-> NoErr, db |-> Persisted(d, o3),
              product |-> FindProductWithLiveChildren(o3.t, pid)]

\* mapProductToResponse(product)
MapProductToResponse(product) ==
    [id         |-> product.product.ID,
     price      |-> product.product.Price,
     stock      |-> product.product.Stock,
     images     |-> {r.Url : r \in product.Images},
     attributes |-> {[id |-> r.ID, key |-> r.Key, value |-> r.Value] : r \in product.Attributes},
     variants   |-> {[id |-> r.ID, name |-> r.Name, price |-> r.CustomPrice, stock |-> r.Stock] :
                        r \in product.Variants}]

\* the status that the controller or the global handler answers for an error
StatusOf(e) ==
    CASE e = NoErr -> 200
      [] e \in {"Product not found", "Category not found", "Supplier not found",
                "Customer not found", "Record not found"} -> 404
      [] OTHER -> 500

\* validation(updateProductSchema, 'body') and the controller updateProduct
UpdateProduct(pid, body, nFiles) ==
    /\ LET v == Validation(body, nFiles)
           r == UpdateProductService(db, pid, v.body)
       IN  /\ req' = [kind |-> "put", pid |-> pid, raw |-> body, body |-> v.body, files |-> nFiles]
           /\ IF v.error
              THEN /\ res' = [next |-> "error", status |-> 400, message |-> "validation",
                              data |-> NoResult]
                   /\ db' = db
              ELSE /\ res' = [next |-> "ok", status |-> StatusOf(r.err), message |-> r.err,
                              data |-> IF r.err = NoErr THEN MapProductToResponse(r.product)
                                       ELSE NoResult]
                   /\ db' = r.db
    /\ UNCHANGED <<cloud, call, tx, ord, cats, auth>>

\* one PUT request
PutProduct(pid, body, nFiles) ==
    /\ req = NoReq
    /\ UpdateProduct(pid, body, nFiles)

\* the bodies that a client sends as JSON
AttributeLists ==
    {<<>>,
     <<AttrOp("create", NoId, "Color", "Red")>>,
     <<AttrOp("create", NoId, "Color", "Red"), AttrOp("delete", 1, Undef, Undef)>>,
     <<AttrOp("create", NoId, "Color", "Red"), AttrOp("delete", 1, "Size", "M")>>,
     <<AttrOp("update", 1, "Size", "L")>>,
     <<AttrOp("update", 9, "Size", "L")>>,
     <<AttrOp("update", NoId, "Size", "L")>>,
     <<AttrOp(Undef, 1, "Color", "Blue")>>}

VariantLists ==
    {<<>>,
     <<VarOp("create", NoId, "Medium", 11, 2)>>,
     <<VarOp("delete", 1, Undef, NoNum, NoNum)>>,
     <<VarOp("delete", 1, "Small", 10, 3)>>}

JsonBodies ==
    {[EmptyBody EXCEPT !.Price = pr, !.Stock = st, !.CategoryId = cat, !.CustomerId = cu] :
        pr \in {UndefV, NumV(2999), StrV("29.99"), StrV("abc")},
        st \in {UndefV, NumV(7), StrV("7"), StrV("1e2"), StrV("abc")},
        cat \in {UndefV, NumV(2), NumV(9)},
        cu \in {UndefV, StrV("c1"), StrV("c9")}}
    \cup
    {[EmptyBody EXCEPT !.Price = pr, !.Attributes = at, !.Variants = va, !.imagesToDelete = del] :
        pr \in {UndefV, NumV(2999)},
        at \in {UndefV} \cup {ArrV(q) : q \in AttributeLists},
        va \in {UndefV} \cup {ArrV(q) : q \in VariantLists},
        del \in {UndefV, ArrV(<<ImgA>>)}}

\* the bodies that a client sends as multipart form data: every field is a string
FormBodies ==
    {[EmptyBody EXCEPT !.Price = pr, !.Stock = st, !.MinimumStock = st, !.CategoryId = cat,
                       !.CustomerId = cu, !.Attributes = at, !.Variants = va,
                       !.imagesToDelete = del] :
        pr \in {UndefV, StrV("29.99"), StrV("abc")},
        st \in {UndefV, StrV("7")},
        cat \in {UndefV, StrV("2")},
        cu \in {UndefV, StrV("undefined")},
        at \in {UndefV, StrV("{invalid")} \cup {JsonStr(q) : q \in AttributeLists},
        va \in {UndefV, JsonStr(<<>>)},
        del \in {UndefV, JsonStr(<<ImgA>>)}}

NextHttp ==
    \/ \E pid \in ProductIdSet, body \in JsonBodies : PutProduct(pid, body, 0)
    \/ \E body \in FormBodies, n \in 1 .. MaxFiles : PutProduct(1, body, n)

SpecHttp == Init /\ [][NextHttp]_vars


(***************************************************************************)
(* The read paths: GET /api/products, GET /api/products/:id,               *)
(* GET /api/categories and GET /api/categories/:id, together with the      *)
(* handlers that soft-delete products, images and categories.  Each        *)
(* handler is one action; the query strings are drawn from the values      *)
(* that getProductsSchema accepts.                                         *)
(***************************************************************************)
MaxPage == 2
MaxLimit == 2

\* String.prototype.includes / { contains, mode: 'insensitive' }
Contains(hay, needle) ==
    \E i \in 0 .. Len(hay) - Len(needle) : SubSeq(hay, i + 1, i + Len(needle)) = needle

NoSearch == <<>>

Filters(page, limit, search, category, supplierId, inStock) ==
    [page |-> page, limit |-> limit, search |-> search, category |-> category,
     supplierId |-> supplierId, inStock |-> inStock]

\* the filters of getCategoryProductCount(prisma, categoryId): additionalFilters = {}
NoFilters == Filters(1, 1, NoSearch, NoId, Undef, Undef)

Disjunct(field, text) == [f |-> field, s |-> text]

\* buildProductWhereClause(filters): the keys of the where clause; OR = {} and
\* NoId / Undef / FALSE stand for a key that the clause does not have
BuildProductWhereClause(filters) ==
    LET searchOr == IF filters.search # NoSearch
                    THEN {Disjunct("Name", filters.search), Disjunct("SKU", filters.search)}
                    ELSE {}
        stockOr  == IF filters.inStock = "false"
                    THEN {Disjunct("StockLte0", NoSearch), Disjunct("StockNull", NoSearch)}
                    ELSE {}
    IN  [OR         |-> searchOr \cup stockOr,
         CategoryId |-> filters.category,
         SupplierId |-> filters.supplierId,
         StockGte0  |-> filters.inStock = "true"]

\* the rows of the model carry a Stock, so { Stock: null } matches none
MatchesDisjunct(p, d) ==
    CASE d.f = "Name"      -> Contains(p.Name, d.s)
      [] d.f = "SKU"       -> Contains(p.SKU, d.s)
      [] d.f = "StockLte0" -> p.Stock <= 0
      [] OTHER             -> FALSE

\* prisma's reading of a where clause: the keys are conjoined, OR is a disjunction
Matches(p, where) ==
    /\ where.OR # {} => \E d \in where.OR : MatchesDisjunct(p, d)
    /\ where.CategoryId # NoId => p.CategoryId = where.CategoryId
    /\ where.SupplierId # Undef => p.SupplierId = where.SupplierId
    /\ where.StockGte0 => p.Stock >= 0

\* orderBy: { ID: 'asc' }
RECURSIVE SortById(_)
SortById(rows) ==
    IF rows = {} THEN <<>>
    ELSE LET first == CHOOSE r \in rows : \A o \in rows : r.ID <= o.ID
         IN  <<first>> \o SortById(rows \ {first})

\* include: { Images, ProductAttribute, ProductVariant } with no where clause
FindProductWithChildren(d, p) ==
    [product    |-> p,
     Images     |-> {r \in d.images : r.ProductId = p.ID},
     Attributes |-> {r \in d.attributes : r.ProductId = p.ID},
     Variants   |-> {r \in d.variants : r.ProductId = p.ID}]

\* calculatePagination(page, limit, total)
CalculatePagination(page, limit, total) ==
    LET totalPages == (total + limit - 1) \div limit
    IN  [page |-> page, limit |-> limit, total |-> total, totalPages |-> totalPages,
         hasNext |-> page < totalPages, hasPrev |-> page > 1]

\* getProductsService(filters): skip is computed and findMany is called with
\* where, include and orderBy
GetProductsService(d, filters) ==
    LET skip  == (filters.page - 1) * filters.limit
        where == BuildProductWhereClause(filters)
        rows  == SortById({p \in d.products : Matches(p, where)})
        total == Cardinality({p \in d.products : Matches(p, where)})
    IN  [products   |-> [i \in DOMAIN rows |-> FindProductWithChildren(d, rows[i])],
         pagination |-> CalculatePagination(filters.page, filters.limit, total)]

\* the base clause with Deleted: false, which the source has commented out
GetCategoryProductCountOfLive(d, categoryId, additionalFilters) ==
    Cardinality({p \in d.products :
        /\ ~p.Deleted
        /\ Matches(p, BuildProductWhereClause([additionalFilters EXCEPT !.category = categoryId]))})

\* getCategoryProductCount(prisma, categoryId, additionalFilters)
GetCategoryProductCount(d, categoryId, additionalFilters) ==
    Cardinality({p \in d.products :
        Matches(p, BuildProductWhereClause([additionalFilters EXCEPT !.category = categoryId]))})

\* _count: { select: { Products: true } }
CountProducts(d, categoryId) == Cardinality({p \in d.products : p.CategoryId = categoryId})

\* mapCategoryToResponse(category)
MapCategoryToResponse(category, count) ==
    [id |-> category.ID, status |-> IF category.Deleted THEN "inactive" ELSE "active",
     productCount |-> count]

UnchangedByRead == <<cloud, call, tx, ord, cats, auth>>

\* GET /api/products
GetProducts(filters) ==
    /\ LET result == GetProductsService(db, filters)
       IN  res' = [next |-> "ok", status |-> 200,
                   data |-> [i \in DOMAIN result.products |->
                                MapProductToResponse(result.products[i])],
                   pagination |-> result.pagination]
    /\ req' = [kind |-> "list", filters |-> filters]
    /\ UNCHANGED <<db, UnchangedByRead>>

\* GET /api/products/:id: getProductByIdService reads a live product with its
\* live children
GetProduct(pid) ==
    /\ req' = [kind |-> "get", pid |-> pid]
    /\ IF \E p \in db.products : p.ID = pid /\ ~p.Deleted
       THEN res' = [next |-> "ok", status |-> 200,
                    data |-> MapProductToResponse(FindProductWithLiveChildren(db, pid))]
       ELSE res' = [next |-> "ok", status |-> 404, data |-> NoResult]
    /\ UNCHANGED <<db, UnchangedByRead>>

\* GET /api/categories: the categories that are not deleted, each with the
\* count of getCategoryProductCount(prisma, category.ID)
GetCategories ==
    /\ req' = [kind |-> "categories"]
    /\ res' = [next |-> "ok", status |-> 200,
               data |-> {MapCategoryToResponse(c, GetCategoryProductCount(db, c.ID, NoFilters)) :
                            c \in {x \in db.categories : ~x.Deleted}}]
    /\ UNCHANGED <<db, UnchangedByRead>>

\* GET /api/categories/:id
GetCategory(cid) ==
    /\ req' = [kind |-> "category", cid |-> cid]
    /\ IF \E c \in db.categories : c.ID = cid /\ ~c.Deleted
       THEN LET c == CHOOSE x \in db.categories : x.ID = cid
            IN  res' = [next |-> "ok", status |-> 200,
                        data |-> {MapCategoryToResponse(c, GetCategoryProductCount(db, cid, NoFilters))}]
       ELSE res' = [next |-> "ok", status |-> 404, data |-> {}]
    /\ UNCHANGED <<db, UnchangedByRead>>

\* DELETE /api/products/:id: deleteProductService soft-deletes the product and
\* every image, attribute and variant of it in one transaction
DeleteProduct(pid) ==
    /\ req' = [kind |-> "delete", pid |-> pid]
    /\ IF \E p \in db.products : p.ID = pid /\ ~p.Deleted
       THEN /\ db' = [db EXCEPT
                 !.products   = {IF p.ID = pid THEN [p EXCEPT !.Deleted = TRUE] ELSE p : p \in @},
                 !.images     = {IF r.ProductId = pid THEN [r EXCEPT !.Deleted = TRUE] ELSE r : r \in @},
                 !.attributes = {IF r.ProductId = pid THEN [r EXCEPT !.Deleted = TRUE] ELSE r : r \in @},
                 !.variants   = {IF r.ProductId = pid THEN [r EXCEPT !.Deleted = TRUE] ELSE r : r \in @}]
            /\ res' = [next |-> "ok", status |-> 200, data |-> NoResult]
       ELSE /\ db' = db
            /\ res' = [next |-> "ok", status |-> 404, data |-> NoResult]
    /\ UNCHANGED UnchangedByRead

\* PUT /api/products/:id/status: updateProductStatusService and the controller
\* updateProductStatus; 'Product is already ...' is not a message that the
\* controller maps, so the global handler answers it
UpdateProductStatus(pid, status) ==
    /\ req' = [kind |-> "status", pid |-> pid, status |-> status]
    /\ LET isDeleted == status = "inactive"
       IN  IF ~\E p \in db.products : p.ID = pid
           THEN /\ db' = db
                /\ res' = [next |-> "ok", status |-> 404, data |-> NoResult]
           ELSE IF (CHOOSE p \in db.products : p.ID = pid).Deleted = isDeleted
           THEN /\ db' = db
                /\ res' = [next |-> "error", status |-> 500, data |-> NoResult]
           ELSE LET d == [db EXCEPT !.products =
                            {IF p.ID = pid THEN [p EXCEPT !.Deleted = isDeleted] ELSE p : p \in @}]
                IN  /\ db' = d
                    /\ res' = [next |-> "ok", status |-> 200,
                               data |-> MapProductToResponse(FindProductWithLiveChildren(d, pid))]
    /\ UNCHANGED UnchangedByRead

\* DELETE /api/products/:productId/images: deleteProductImageByUrlService and
\* the controller deleteProductImage, which names the object of the media
\* store by the path after the version; a failed destroy is logged
DeleteProductImage(pid, url, destroyed) ==
    /\ req' = [kind |-> "deleteImage", pid |-> pid, url |-> url]
    /\ IF /\ \E p \in db.products : p.ID = pid /\ ~p.Deleted
          /\ \E r \in db.images : r.Url = url /\ r.ProductId = pid /\ ~r.Deleted
       THEN LET existingImage == CHOOSE r \in db.images :
                                    r.Url = url /\ r.ProductId = pid /\ ~r.Deleted
            IN  /\ db' = [db EXCEPT !.images =
                            {IF r.ID = existingImage.ID THEN [r EXCEPT !.Deleted = TRUE] ELSE r : r \in @}]
                /\ cloud' = IF IsCloudinaryUrl(url) /\ destroyed THEN cloud \ {ObjectOf(url)} ELSE cloud
                /\ res' = [next |-> "ok", status |-> 200, data |-> NoResult]
       ELSE /\ db' = db
            /\ cloud' = cloud
            /\ res' = [next |-> "ok", status |-> 404, data |-> NoResult]
    /\ UNCHANGED <<call, tx, ord, cats, auth>>

\* PUT /api/categories/:id/status: updateCategoryStatusService sets the status
\* of the category and of its products in one transaction
UpdateCategoryStatus(cid, status) ==
    /\ req' = [kind |-> "categoryStatus", cid |-> cid, status |-> status]
    /\ LET isDeleted == status = "inactive"
       IN  IF ~\E c \in db.categories : c.ID = cid
           THEN /\ db' = db
                /\ res' = [next |-> "ok", status |-> 404, data |-> {}]
           ELSE IF (CHOOSE c \in db.categories : c.ID = cid).Deleted = isDeleted
           THEN /\ db' = db
                /\ res' = [next |-> "ok", status |-> 400, data |-> {}]
           ELSE LET updatedCategory ==
                        [(CHOOSE c \in db.categories : c.ID = cid) EXCEPT !.Deleted = isDeleted]
                IN  /\ db' = [db EXCEPT
                          !.categories = {IF c.ID = cid THEN updatedCategory ELSE c : c \in @},
                          !.products   = {IF p.CategoryId = cid /\ p.Deleted = ~isDeleted
                                          THEN [p EXCEPT !.Deleted = isDeleted] ELSE p : p \in @}]
                    /\ res' = [next |-> "ok", status |-> 200,
                               data |-> {MapCategoryToResponse(updatedCategory, CountProducts(db, cid))}]
    /\ UNCHANGED UnchangedByRead

\* the query strings of GET /api/products: every combination of the filters
\* on the first page, and every page and page size for the listing of all
\* products and of one category
SearchSet == {NoSearch, <<"p">>}
CategoryIdSet == {1, 2, 9}
OtherFilterSet ==
    {Filters(1, MaxLimit, search, NoId, supplierId, inStock) :
        search \in SearchSet, supplierId \in {Undef, "s1"}, inStock \in {Undef, "true", "false"}}

FilterSet ==
    {[f EXCEPT !.category = c] : f \in OtherFilterSet, c \in {NoId, 1, 2}}
        \cup {Filters(page, limit, NoSearch, c, Undef, Undef) :
                 page \in 1 .. MaxPage, limit \in 1 .. MaxLimit, c \in {NoId, 1}}

\* a body that soft-deletes a child of product 1
ChildDeleteBodies ==
    {[EmptyBody EXCEPT !.Attributes = ArrV(<<AttrOp("delete", 1, "Size", "M")>>)]}

StatusSet == {"active", "inactive"}

NextRead ==
    \/ \E filters \in FilterSet : GetProducts(filters)
    \/ \E pid \in ProductIdSet : GetProduct(pid)
    \/ GetCategories
    \/ \E cid \in CategoryIdSet : GetCategory(cid)
    \/ \E body \in ChildDeleteBodies : UpdateProduct(1, body, 0)
    \/ \E pid \in {2, 9} : DeleteProduct(pid)
    \/ \E pid \in {1, 9}, status \in StatusSet : UpdateProductStatus(pid, status)
    \/ \E url \in {ImgA, ImgD}, destroyed \in BOOLEAN : DeleteProductImage(1, url, destroyed)
    \/ \E cid \in {2, 9}, status \in StatusSet : UpdateCategoryStatus(cid, status)

SpecRead == Init /\ [][NextRead]_vars

(***************************************************************************)
(* POST /api/orders: createOrderService.  A request first looks up the     *)
(* customer, the supplier and the product of every item, and then creates  *)
(* the order, its items and the stock decrements in one transaction.  ord  *)
(* is the sequence of the requests received so far, each at its position.  *)
(***************************************************************************)
MaxOrders == 2
MaxItems == 2
MaxQuantity == 3

Item(pid, quantity) == [ProductId |-> pid, Quantity |-> quantity]

Order(id, customerId, supplierId, subTotal) ==
    [ID |-> id, CustomerId |-> customerId, SupplierId |-> supplierId, SubTotal |-> subTotal,
     Status |-> 0, Deleted |-> FALSE]

OrderItem(id, orderId, item) ==
    [ID |-> id, OrderId |-> orderId, ProductId |-> item.ProductId, Quantity |-> item.Quantity,
     Deleted |-> FALSE]

\* prisma.products.findUnique({ where: { ID: item.ProductId, Deleted: false } })
\* and the comparison of its Stock with the Quantity of the item
ItemError(d, item) ==
    IF ~\E p \in d.products : p.ID = item.ProductId /\ ~p.Deleted
    THEN "Product not found"
    ELSE IF (CHOOSE p \in d.products : p.ID = item.ProductId).Stock < item.Quantity
    THEN "Insufficient stock"
    ELSE NoErr

\* the lookups of createOrderService that precede its transaction
CheckOrder(d, customerId, supplierId, items) ==
    IF customerId \notin d.customers THEN "Customer not found"
    ELSE IF supplierId \notin d.suppliers THEN "Supplier not found"
    ELSE IF \E i \in DOMAIN items : ItemError(d, items[i]) # NoErr
    THEN LET i == CHOOSE j \in DOMAIN items :
                     /\ ItemError(d, items[j]) # NoErr
                     /\ \A k \in 1 .. j - 1 : ItemError(d, items[k]) = NoErr
         IN  ItemError(d, items[i])
    ELSE NoErr

\* subTotal += product.Price * item.Quantity
RECURSIVE SubTotal(_, _)
SubTotal(d, items) ==
    IF items = <<>> THEN 0
    ELSE (CHOOSE p \in d.products : p.ID = Head(items).ProductId).Price * Head(items).Quantity
            + SubTotal(d, Tail(items))

\* tx.orderItem.create and tx.products.update({ data: { Stock: { decrement } } })
\* for every item
RECURSIVE CreateOrderItems(_, _, _)
CreateOrderItems(t, orderId, items) ==
    IF items = <<>> THEN t
    ELSE LET item == Head(items)
         IN  CreateOrderItems(
                 [t EXCEPT !.orderItems = @ \cup {OrderItem(t.nextItem, orderId, item)},
                           !.nextItem = @ + 1,
                           !.products = {IF p.ID = item.ProductId
                                         THEN [p EXCEPT !.Stock = @ - item.Quantity]
                                         ELSE p : p \in @}],
                 orderId, Tail(items))

\* the request is received and its lookups are made
CreateOrderBegin(customerId, supplierId, items) ==
    /\ Len(ord) < MaxOrders
    /\ LET e == CheckOrder(db, customerId, supplierId, items)
       IN  ord' = Append(ord,
                 IF e = NoErr
                 THEN [pc |-> "checked", CustomerId |-> customerId, SupplierId |-> supplierId,
                       items |-> items, subTotal |-> SubTotal(db, items), err |-> NoErr,
                       orderId |-> NoId]
                 ELSE [pc |-> "failed", CustomerId |-> customerId, SupplierId |-> supplierId,
                       items |-> items, subTotal |-> 0, err |-> e, orderId |-> NoId])
    /\ UNCHANGED <<db, cloud, call, tx, req, res, cats, auth>>

\* prisma.$transaction: the order, its items and the decrements
CreateOrderTransaction(i) ==
    /\ i \in DOMAIN ord
    /\ ord[i].pc = "checked"
    /\ LET o == ord[i]
           t == [db EXCEPT !.orders = @ \cup {Order(db.nextOrder, o.CustomerId, o.SupplierId,
                                                     o.subTotal)},
                           !.nextOrder = @ + 1]
       IN  /\ db' = CreateOrderItems(t, db.nextOrder, o.items)
           /\ ord' = [ord EXCEPT ![i].pc = "done", ![i].orderId = db.nextOrder]
    /\ UNCHANGED <<cloud, call, tx, req, res, cats, auth>>

\* the items of the requests: product 1 is in stock, product 2 is out of
\* stock and product 3 is soft-deleted
ItemSet == {Item(1, q) : q \in 1 .. MaxQuantity} \cup {Item(2, 1), Item(3, 1)}

ItemLists == UNION {[1 .. n -> ItemSet] : n \in 1 .. MaxItems}

OrderRequests ==
    {<<"c1", "s1", items>> : items \in ItemLists}
        \cup {<<"c9", "s1", <<Item(1, 1)>>>>, <<"c1", "s9", <<Item(1, 1)>>>>}

NextOrder ==
    \/ \E r \in OrderRequests : CreateOrderBegin(r[1], r[2], r[3])
    \/ \E i \in 1 .. MaxOrders : CreateOrderTransaction(i)

SpecOrder == Init /\ [][NextOrder]_vars

(***************************************************************************)
(* PUT /api/orders/:id/status: validation(updateOrderStatusSchema), the    *)
(* controller updateOrderStatus and updateOrderStatusService.              *)
(***************************************************************************)
\* Joi.number().integer().valid(0, 1, 2, 3, 4)
OrderStatusSet == 0 .. 4

\* getOrderByIdService: findUnique({ where: { ID: orderId, Deleted: false } })
GetOrderById(d, orderId) == {o \in d.orders : o.ID = orderId /\ ~o.Deleted}

\* the checks of updateOrderStatusService before its update
OrderStatusError(d, orderId, status) ==
    IF GetOrderById(d, orderId) = {} THEN "Order not found"
    ELSE LET currentStatus == (CHOOSE o \in GetOrderById(d, orderId) : TRUE).Status
         IN  IF currentStatus = status THEN "Order is already in this status"
             ELSE IF currentStatus = 3 THEN "Cannot update status of completed orders"
             ELSE NoErr

UpdateOrderStatus(orderId, status) ==
    /\ req' = [kind |-> "orderStatus", orderId |-> orderId, status |-> status]
    /\ LET e == OrderStatusError(db, orderId, status)
       IN  IF e = NoErr
           THEN /\ db' = [db EXCEPT !.orders =
                            {IF o.ID = orderId THEN [o EXCEPT !.Status = status] ELSE o : o \in @}]
                /\ res' = [next |-> "ok", status |-> 200, message |-> NoErr, data |-> status]
           ELSE /\ db' = db
                /\ res' = [next |-> "ok",
                           status |-> IF e = "Order not found" THEN 404 ELSE 400,
                           message |-> e, data |-> NoNum]
    /\ UNCHANGED <<cloud, call, tx, ord, cats, auth>>

NextOrderStatus ==
    \/ CreateOrderBegin("c1", "s1", <<Item(1, 1)>>)
    \/ \E i \in 1 .. MaxOrders : CreateOrderTransaction(i)
    \/ \E orderId \in (1 .. MaxOrders) \cup {9}, status \in OrderStatusSet :
           UpdateOrderStatus(orderId, status)

SpecOrderStatus == Init /\ [][NextOrderStatus]_vars

(***************************************************************************)
(* PUT /api/orders/:id/approve, /reject and /complete.  Each service reads *)
(* the order, checks its status and then awaits an update by ID, so a      *)
(* request is either before its update or answered; the requests are       *)
(* appended to ord.                                                        *)
(***************************************************************************)
MaxOrderOps == 3

OrderOpSet == {"approve", "reject", "complete"}

\* the Status that the update of the operation writes
OrderOpStatus(op) ==
    CASE op = "approve" -> 1
      [] op = "reject" -> 2
      [] op = "complete" -> 3

\* the check of the operation on the status that it has read
OrderOpAllowed(op, status) ==
    CASE op = "approve" -> status = 0
      [] op = "reject" -> status = 0 \/ status = 1
      [] op = "complete" -> status = 1

OrderOpCall(pc, op, orderId, read, status) ==
    [pc |-> pc, op |-> op, orderId |-> orderId, read |-> read, status |-> status]

OrderOps == {i \in DOMAIN ord : "op" \in DOMAIN ord[i]}

\* getOrderByIdService and the check of existingOrder.Status
OrderOperationBegin(op, orderId) ==
    /\ Cardinality(OrderOps) < MaxOrderOps
    /\ ord' = Append(ord,
          IF GetOrderById(db, orderId) = {}
          THEN OrderOpCall("failed", op, orderId, NoNum, 404)
          ELSE LET existingOrder == CHOOSE o \in GetOrderById(db, orderId) : TRUE
               IN  IF OrderOpAllowed(op, existingOrder.Status)
                   THEN OrderOpCall("read", op, orderId, existingOrder.Status, 0)
                   ELSE OrderOpCall("failed", op, orderId, existingOrder.Status, 400))
    /\ UNCHANGED <<db, cloud, call, tx, req, res, cats, auth>>

\* prisma.order.update({ where: { ID: orderId }, data: { Status } }) and the
\* 200 response
OrderOperationUpdate(i) ==
    /\ i \in OrderOps
    /\ ord[i].pc = "read"
    /\ db' = [db EXCEPT !.orders =
                 {IF o.ID = ord[i].orderId THEN [o EXCEPT !.Status = OrderOpStatus(ord[i].op)]
                  ELSE o : o \in @}]
    /\ ord' = [ord EXCEPT ![i].pc = "done", ![i].status = 200]
    /\ UNCHANGED <<cloud, call, tx, req, res, cats, auth>>

NextOrderOps ==
    \/ CreateOrderBegin("c1", "s1", <<Item(1, 1)>>)
    \/ \E i \in 1 .. MaxOrders : CreateOrderTransaction(i)
    \/ \E op \in OrderOpSet, orderId \in {1, 9} : OrderOperationBegin(op, orderId)
    \/ \E i \in 1 .. MaxOrders + MaxOrderOps : OrderOperationUpdate(i)

SpecOrderOps == Init /\ [][NextOrderOps]_vars

(***************************************************************************)
(* POST /api/categories: the controller createCategory and                 *)
(* createCategoryService.  The service awaits the name lookup, the upload  *)
(* of the image and the insert one after the other, so a request is at one *)
(* of these positions; cats is the sequence of the requests received so     *)
(* far.                                                                    *)
(***************************************************************************)
MaxCategoryCalls == 2

\* Mutant: the lookup matches the soft-deleted categories instead of the live ones
ExistingDeletedCategory(d, name) == \E c \in d.categories : c.Name = name /\ c.Deleted

\* prisma.categories.findFirst({ where: { Name: name, Deleted: false } })
ExistingCategory(d, name) == \E c \in d.categories : c.Name = name /\ ~c.Deleted

\* a request with its position, the status of its response and the row it inserted
CategoryCall(pc, name, image, status, created) ==
    [pc |-> pc, name |-> name, image |-> image, status |-> status, created |-> created]

\* uploadToCloudinary(imageFile.buffer, 'categories', `category_${Date.now()}`)
CategoryPublicId(i) == PublicId("categories", <<"category", "now", i>>)

\* validation(createCategorySchema), whose schema has no key imageUrl, the
\* controller's check of the image and the service's name lookup
CreateCategoryBegin(name, image) ==
    /\ Len(cats) < MaxCategoryCalls
    /\ cats' = Append(cats,
          IF image = "url" THEN CategoryCall("failed", name, image, 400, NoId)
          ELSE IF image = "none" THEN CategoryCall("failed", name, image, 400, NoId)
          ELSE IF ExistingCategory(db, name) THEN CategoryCall("failed", name, image, 409, NoId)
          ELSE CategoryCall("upload", name, image, 0, NoId))
    /\ UNCHANGED <<db, cloud, call, tx, req, res, ord, auth>>

\* the upload of the image file, which the media store accepts or refuses
CreateCategoryUpload(i, uploaded) ==
    /\ i \in DOMAIN cats
    /\ cats[i].pc = "upload"
    /\ IF uploaded
       THEN /\ cloud' = cloud \cup {CategoryPublicId(i)}
            /\ cats' = [cats EXCEPT ![i].pc = "create"]
       ELSE /\ cloud' = cloud
            /\ cats' = [cats EXCEPT ![i].pc = "failed", ![i].status = 400]
    /\ UNCHANGED <<db, call, tx, req, res, ord, auth>>

\* prisma.categories.create and the 201 response
CreateCategoryInsert(i) ==
    /\ i \in DOMAIN cats
    /\ cats[i].pc = "create"
    /\ db' = [db EXCEPT !.categories = @ \cup {[ID |-> db.nextCat, Name |-> cats[i].name, Deleted |-> FALSE]},
                        !.nextCat = @ + 1]
    /\ cats' = [cats EXCEPT ![i].pc = "done", ![i].status = 201, ![i].created = db.nextCat]
    /\ UNCHANGED <<cloud, call, tx, req, res, ord, auth>>

CategoryNameSet == {"Electronics", "Books", "Toys"}
CategoryImageSet == {"none", "url", "file"}

NextCategory ==
    \/ \E name \in CategoryNameSet, image \in CategoryImageSet : CreateCategoryBegin(name, image)
    \/ \E i \in 1 .. MaxCategoryCalls, uploaded \in BOOLEAN : CreateCategoryUpload(i, uploaded)
    \/ \E i \in 1 .. MaxCategoryCalls : CreateCategoryInsert(i)
    \/ \E cid \in {2, 9}, status \in StatusSet : UpdateCategoryStatus(cid, status)

SpecCategory == Init /\ [][NextCategory]_vars

(***************************************************************************)
(* DELETE /api/products/:id, statement by statement: deleteProductService  *)
(* looks the product up and then runs four writes in one interactive       *)
(* transaction, any of which the store may reject.  req holds the request  *)
(* in flight with the store as it was when the request arrived.            *)
(***************************************************************************)
\* Mutant: updateMany({ where: { ProductId } }) reaches the live rows of no product
SoftDeleteNoneOwned(rows, pid) == rows

\* updateMany({ where: { ProductId: productId }, data: { Deleted: true } })
SoftDeleteOwned(rows, pid) ==
    {IF r.ProductId = pid THEN [r EXCEPT !.Deleted = TRUE] ELSE r : r \in rows}

DeleteInFlight == req.kind = "deleting"

\* findUnique({ where: { ID: productId, Deleted: false } }), then the
\* transaction is opened
DeleteProductBegin(pid) ==
    /\ ~DeleteInFlight
    /\ IF \E p \in db.products : p.ID = pid /\ ~p.Deleted
       THEN /\ req' = [kind |-> "deleting", pid |-> pid, step |-> "product", before |-> db]
            /\ tx' = db
            /\ res' = NoRes
       ELSE /\ req' = [kind |-> "deleted", pid |-> pid, before |-> db]
            /\ tx' = tx
            /\ res' = [next |-> "ok", status |-> 404, data |-> NoResult]
    /\ UNCHANGED <<db, cloud, call, ord, cats, auth>>

DeleteTxStep(step, nextStep, t) ==
    /\ DeleteInFlight /\ req.step = step
    /\ tx' = t
    /\ req' = [req EXCEPT !.step = nextStep]
    /\ UNCHANGED <<db, cloud, call, res, ord, cats, auth>>

\* tx.products.update({ where: { ID: productId }, data: { Deleted: true } })
DeleteTxProduct ==
    DeleteTxStep("product", "images",
        [tx EXCEPT !.products = {IF p.ID = req.pid THEN [p EXCEPT !.Deleted = TRUE] ELSE p : p \in @}])

DeleteTxImages ==
    DeleteTxStep("images", "attributes", [tx EXCEPT !.images = SoftDeleteOwned(@, req.pid)])

DeleteTxAttributes ==
    DeleteTxStep("attributes", "variants", [tx EXCEPT !.attributes = SoftDeleteOwned(@, req.pid)])

DeleteTxVariants ==
    DeleteTxStep("variants", "commit", [tx EXCEPT !.variants = SoftDeleteOwned(@, req.pid)])

\* the callback returns: the transaction commits and the controller answers 200
DeleteTxCommit ==
    /\ DeleteInFlight /\ req.step = "commit"
    /\ db' = Persisted(db, Ok(tx))
    /\ tx' = NoTx
    /\ req' = [kind |-> "deleted", pid |-> req.pid, before |-> req.before]
    /\ res' = [next |-> "ok", status |-> 200, data |-> NoResult]
    /\ UNCHANGED <<cloud, call, ord, cats, auth>>

\* the store rejects a statement of the transaction: the transaction is
\* rolled back, the service throws and the global handler answers
DeleteTxFault ==
    /\ DeleteInFlight
    /\ db' = Persisted(db, Raise(tx))
    /\ tx' = NoTx
    /\ req' = [kind |-> "deleted", pid |-> req.pid, before |-> req.before]
    /\ res' = [next |-> "error", status |-> 500, data |-> NoResult]
    /\ UNCHANGED <<cloud, call, ord, cats, auth>>

NextDelete ==
    \/ \E pid \in {1, 2, 9} : DeleteProductBegin(pid)
    \/ DeleteTxProduct
    \/ DeleteTxImages
    \/ DeleteTxAttributes
    \/ DeleteTxVariants
    \/ DeleteTxCommit
    \/ DeleteTxFault
    \/ \E pid \in {1, 2, 9}, status \in StatusSet : ~DeleteInFlight /\ UpdateProductStatus(pid, status)

SpecDelete == Init /\ [][NextDelete]_vars

(***************************************************************************)
(* POST /api/auth/login, POST /api/auth/logout and the middleware          *)
(* isAuthenticated.  login awaits the lookup of the user and, in the       *)
(* branch of a password that is not valid, the update of the failure       *)
(* counter.  logout runs after isAuthenticated and awaits the update of    *)
(* the security stamp.  The clock auth.now counts quarters of an hour.     *)
(***************************************************************************)
MaxLogins == 6
MaxTime == 3
MaxLogouts == 2

\* user.AccessFailedCount >= 4
LockoutThreshold == 4

\* new Date(Date.now() + 30 * 60 * 1000)
LockoutPeriod == 2

\* hashPassword: the stored hash is derived from the password and is not
\* the password
HashPassword(password) == <<"pbkdf2", password>>

\* verifyPassword(storedHash, password) returns the object { success, message }
VerifyPassword(hash, password) ==
    IF hash = HashPassword(password)
    THEN [success |-> TRUE, message |-> "Password verified"]
    ELSE [success |-> FALSE, message |-> "Password mismatch"]

\* the truth value that JavaScript gives to an object: true, whatever its
\* fields hold
TruthyObject(o) == DOMAIN o = DOMAIN o

\* user.LockoutEnabled && user.LockoutEnd && new Date() < user.LockoutEnd
IsLocked(user, now) == user.LockoutEnabled /\ user.LockoutEnd # NoNum /\ now < user.LockoutEnd

\* jwt.sign({ id, email, securityStamp }); epoch is the number of logouts
\* that the user had completed when the token was issued
Token(user, epoch) == [id |-> user.Id, securityStamp |-> user.SecurityStamp, epoch |-> epoch]

AuthResponse(kind, id, status) == [kind |-> kind, id |-> id, status |-> status]

\* 1 when the password of a login is not the password of the account.
\* auth.wrong counts these logins for every account.
Mismatch(user, password) == IF user.PasswordHash = HashPassword(password) THEN 0 ELSE 1

\* POST /api/auth/login up to its response or, in the branch of
\* !isPasswordValid, up to the update that it awaits
Login(email, password) ==
    /\ auth.attempts < MaxLogins
    /\ LET found == {u \in db.users : u.Email = email}
       IN  IF found = {}
           THEN auth' = [auth EXCEPT !.attempts = @ + 1,
                                     !.last = AuthResponse("login", Undef, 401)]
           ELSE LET user == CHOOSE u \in found : TRUE
                IN  IF IsLocked(user, auth.now)
                    THEN auth' = [auth EXCEPT !.attempts = @ + 1,
                                              !.wrong[user.Id] = @ + Mismatch(user, password),
                                              !.last = AuthResponse("login", user.Id, 423)]
                    ELSE IF ~TruthyObject(VerifyPassword(user.PasswordHash, password))
                    THEN auth' = [auth EXCEPT
                               !.attempts = @ + 1,
                               !.wrong[user.Id] = @ + Mismatch(user, password),
                               !.pending = @ \cup {[n |-> auth.attempts + 1, Id |-> user.Id,
                                                    AccessFailedCount |-> user.AccessFailedCount]}]
                    ELSE auth' = [auth EXCEPT
                               !.attempts = @ + 1,
                               !.wrong[user.Id] = @ + Mismatch(user, password),
                               !.tokens = @ \cup {Token(user, auth.logouts[user.Id])},
                               !.last = AuthResponse("login", user.Id, 200)]
    /\ UNCHANGED <<db, cloud, call, tx, req, res, ord, cats>>

\* the update in the branch of !isPasswordValid, with the counter that the
\* login read, and its 401 response.  No login reaches the branch, so the
\* step is not part of NextLogin.
LoginRecordFailure(p) ==
    /\ p \in auth.pending
    /\ db' = [db EXCEPT !.users =
                 {IF u.Id # p.Id THEN u
                  ELSE IF p.AccessFailedCount >= LockoutThreshold
                  THEN [u EXCEPT !.AccessFailedCount = p.AccessFailedCount + 1,
                                 !.LockoutEnabled = TRUE,
                                 !.LockoutEnd = auth.now + LockoutPeriod]
                  ELSE [u EXCEPT !.AccessFailedCount = p.AccessFailedCount + 1] : u \in @}]
    /\ auth' = [auth EXCEPT !.pending = @ \ {p},
                            !.last = AuthResponse("login", p.Id, 401)]
    /\ UNCHANGED <<cloud, call, tx, req, res, ord, cats>>

\* a quarter of an hour passes
Tick ==
    /\ auth.now < MaxTime
    /\ auth' = [auth EXCEPT !.now = @ + 1]
    /\ UNCHANGED <<db, cloud, call, tx, req, res, ord, cats>>

\* Mutant: the middleware does not compare the security stamps
AuthStatusWithoutStamp(d, token) ==
    IF ~\E u \in d.users : u.Id = token.id THEN 404
    ELSE IF ~(CHOOSE u \in d.users : u.Id = token.id).EmailConfirmed THEN 400
    ELSE 200

\* isAuthenticated for a well-formed, unexpired token: the status of the
\* error that it passes on, or 200 when it calls next()
AuthStatus(d, token) ==
    IF ~\E u \in d.users : u.Id = token.id THEN 404
    ELSE IF ~(CHOOSE u \in d.users : u.Id = token.id).EmailConfirmed THEN 400
    ELSE IF token.securityStamp # (CHOOSE u \in d.users : u.Id = token.id).SecurityStamp THEN 401
    ELSE 200

\* GET /api/auth/me with a token that was issued earlier
GetMe(token) ==
    /\ token \in auth.tokens
    /\ auth' = [auth EXCEPT !.last = [kind |-> "me", id |-> token.id,
                                      status |-> AuthStatus(db, token), token |-> token]]
    /\ UNCHANGED <<db, cloud, call, tx, req, res, ord, cats>>

\* POST /api/auth/logout: isAuthenticated sets req.user or answers
LogoutAuthenticate(token) ==
    /\ token \in auth.tokens
    /\ auth.logoutCalls < MaxLogouts
    /\ IF AuthStatus(db, token) = 200
       THEN auth' = [auth EXCEPT !.logoutCalls = @ + 1, !.loggingOut[token.id] = @ + 1]
       ELSE auth' = [auth EXCEPT !.logoutCalls = @ + 1,
                                 !.last = [kind |-> "logout", id |-> token.id,
                                           status |-> AuthStatus(db, token), token |-> token]]
    /\ UNCHANGED <<db, cloud, call, tx, req, res, ord, cats>>

\* logout: SecurityStamp becomes crypto.randomUUID(), a value that no user
\* and no token carries
Logout(id) ==
    /\ auth.loggingOut[id] > 0
    /\ db' = [db EXCEPT !.users = {IF u.Id = id THEN [u EXCEPT !.SecurityStamp = db.nextStamp]
                                   ELSE u : u \in @},
                        !.nextStamp = @ + 1]
    /\ auth' = [auth EXCEPT !.loggingOut[id] = @ - 1,
                            !.logouts[id] = @ + 1,
                            !.last = AuthResponse("logout", id, 200)]
    /\ UNCHANGED <<cloud, call, tx, req, res, ord, cats>>

EmailSet == {"a@x", "z@x"}
PasswordSet == {"right", "wrong"}

NextLogin ==
    \/ \E email \in EmailSet, password \in PasswordSet : Login(email, password)
    \/ Tick

SpecLogin == Init /\ [][NextLogin]_vars

\* Users.AccessFailedCount is an Int column that the login reads: the largest
\* count that the account a@x starts with
MaxFailedBefore == 4

\* the store in which the account a@x has n recorded failures
WithFailures(d, n) ==
    [d EXCEPT !.users = {IF u.Email = "a@x" THEN [u EXCEPT !.AccessFailedCount = n] ELSE u : u \in @}]

InitLockout ==
    /\ \E n \in 0 .. MaxFailedBefore : db = WithFailures(InitDb, n)
    /\ cloud = InitCloud
    /\ call = IdleCall
    /\ tx = NoTx
    /\ req = NoReq
    /\ res = NoRes
    /\ ord = NoOrders
    /\ cats = NoCategoryCalls
    /\ auth = NoSessions

SpecLockout == InitLockout /\ [][NextLogin]_vars

NextSession ==
    \/ \E email \in {"a@x", "b@x"} : Login(email, "right")
    \/ \E token \in auth.tokens : GetMe(token)
    \/ \E token \in auth.tokens : LogoutAuthenticate(token)
    \/ \E id \in UserIdSet : Logout(id)

SpecSession == Init /\ [][NextSession]_vars

(***************************************************************************)
(* PUT /api/categories/:id/status, statement by statement:                 *)
(* updateCategoryStatusService looks the category up and then runs two     *)
(* writes in one interactive transaction, either of which the store may    *)
(* reject.  req holds the request in flight with the store as it was when  *)
(* the request arrived.                                                    *)
(***************************************************************************)
\* Mutant: the updateMany of the products reaches no row
CascadeToNoProduct(rows, cid, isDeleted) == rows

\* tx.products.updateMany({ where: { CategoryId, Deleted: !isDeleted },
\*                          data: { Deleted: isDeleted } })
CascadeToProducts(rows, cid, isDeleted) ==
    {IF p.CategoryId = cid /\ p.Deleted = ~isDeleted THEN [p EXCEPT !.Deleted = isDeleted] ELSE p :
        p \in rows}

CategoryStatusInFlight == req.kind = "categoryUpdating"

CategoryStatusAnswer(cid, status, code) ==
    /\ req' = [kind |-> "categoryUpdated", cid |-> cid, status |-> status,
               before |-> IF CategoryStatusInFlight THEN req.before ELSE db]
    /\ res' = [next |-> IF code = 500 THEN "error" ELSE "ok", status |-> code, data |-> NoResult]

\* the lookup of the category and the check of its current status, then the
\* transaction is opened
UpdateCategoryStatusBegin(cid, status) ==
    /\ ~CategoryStatusInFlight
    /\ LET isDeleted == status = "inactive"
       IN  IF ~\E c \in db.categories : c.ID = cid
           THEN CategoryStatusAnswer(cid, status, 404) /\ tx' = tx
           ELSE IF (CHOOSE c \in db.categories : c.ID = cid).Deleted = isDeleted
           THEN CategoryStatusAnswer(cid, status, 400) /\ tx' = tx
           ELSE /\ req' = [kind |-> "categoryUpdating", cid |-> cid, status |-> status,
                           step |-> "category", before |-> db]
                /\ res' = NoRes
                /\ tx' = db
    /\ UNCHANGED <<db, cloud, call, ord, cats, auth>>

\* tx.categories.update({ where: { ID }, data: { Deleted: isDeleted } })
UpdateCategoryStatusTxCategory ==
    /\ CategoryStatusInFlight /\ req.step = "category"
    /\ tx' = [tx EXCEPT !.categories =
                 {IF c.ID = req.cid THEN [c EXCEPT !.Deleted = (req.status = "inactive")] ELSE c :
                     c \in @}]
    /\ req' = [req EXCEPT !.step = "products"]
    /\ UNCHANGED <<db, cloud, call, res, ord, cats, auth>>

UpdateCategoryStatusTxProducts ==
    /\ CategoryStatusInFlight /\ req.step = "products"
    /\ tx' = [tx EXCEPT !.products = CascadeToProducts(@, req.cid, req.status = "inactive")]
    /\ req' = [req EXCEPT !.step = "commit"]
    /\ UNCHANGED <<db, cloud, call, res, ord, cats, auth>>

\* the callback returns: the transaction commits and the controller answers 200
UpdateCategoryStatusCommit ==
    /\ CategoryStatusInFlight /\ req.step = "commit"
    /\ db' = Persisted(db, Ok(tx))
    /\ tx' = NoTx
    /\ CategoryStatusAnswer(req.cid, req.status, 200)
    /\ UNCHANGED <<cloud, call, ord, cats, auth>>

\* the store rejects a statement of the transaction: the transaction is
\* rolled back, the service throws and the global handler answers
UpdateCategoryStatusFault ==
    /\ CategoryStatusInFlight
    /\ db' = Persisted(db, Raise(tx))
    /\ tx' = NoTx
    /\ CategoryStatusAnswer(req.cid, req.status, 500)
    /\ UNCHANGED <<cloud, call, ord, cats, auth>>

NextCategoryStatus ==
    \/ \E cid \in CategoryIdSet, status \in StatusSet : UpdateCategoryStatusBegin(cid, status)
    \/ UpdateCategoryStatusTxCategory
    \/ UpdateCategoryStatusTxProducts
    \/ UpdateCategoryStatusCommit
    \/ UpdateCategoryStatusFault
    \/ \E pid \in {1, 2, 9}, status \in StatusSet :
           ~CategoryStatusInFlight /\ UpdateProductStatus(pid, status)

SpecCategoryStatus == Init /\ [][NextCategoryStatus]_vars

(***************************************************************************)
(* Properties of updateProductService.                                     *)
(***************************************************************************)
TxErrors == {"Record not found", "Database error"}

\* C1: a call of updateProductService in which a step of the transaction
\* raised leaves the product, attribute, variant and image rows exactly as
\* they were before the call.
C1_Atomicity ==
    (call.pc \in {"catch", "done"} /\ call.err \in TxErrors) => db = call.before

\* a call failed at its second or later child op, after earlier steps had
\* written to the transaction
C1_Witness ==
    /\ call.pc = "done" /\ call.err \in TxErrors
    /\ call.nAttr >= 1 /\ call.curOp \in AttributeOps \cup VariantOps

\* C2: when the transaction fails after the uploads of the call succeeded,
\* a delete has been issued for every object the call uploaded and the call
\* throws the error of the transaction.
C2_CleanupAfterTxFailure ==
    (call.pc = "done" /\ call.err \in TxErrors)
        => /\ call.uploaded \subseteq call.destroyed
           /\ call.thrown = call.err

C2_Witness ==
    /\ call.pc = "done" /\ call.err \in TxErrors
    /\ Len(call.newImageUrls) = 2 /\ Cardinality(call.uploaded) = 2
    /\ call.uploaded \subseteq call.destroyed

\* C3: a delete for the object of an image listed in imagesToDelete is
\* issued only by a call whose transaction has committed.
C3_PurgeOnlyAfterCommit ==
    \A u \in call.imagesToDelete : ObjectOf(u) \in call.destroyed => call.committed

C3_Witness ==
    /\ call.pc = "done" /\ call.committed
    /\ ImgA \in call.imagesToDelete /\ ObjectOf(ImgA) \in call.destroyed
    /\ ObjectOf(ImgA) \notin cloud

\* a step of the loops over Attributes and Variants is being taken
ChildOpStep == call.pc = "tx" /\ call.step \in {"attrs", "variants"} /\ call'.curOp # NoOp

ChildRows == IF call.step = "attrs" THEN tx.attributes ELSE tx.variants

LiveTarget(op) == \E r \in ChildRows : r.ID = op.ID /\ r.ProductId = call.pid /\ ~r.Deleted

DeletedTarget(op) == \E r \in ChildRows : r.ID = op.ID /\ r.ProductId = call.pid /\ r.Deleted

MissingTargetStep ==
    /\ ChildOpStep
    /\ ActionOf(call'.curOp) \in {"update", "delete"}
    /\ ~LiveTarget(call'.curOp)

\* C4 as claimed: an update or delete op whose ID identifies no live child of
\* the product changes nothing and lets the call go on.
C4_MissingChildIsNoOp ==
    [][MissingTargetStep => (call'.pc = "tx" /\ tx' = tx)]_vars

\* C4 as amended: an update or delete op that carries no ID is a silent
\* no-op, and a delete op on an already soft-deleted child of the product
\* leaves it deleted; every other update or delete op whose ID identifies no
\* live child of the product raises, and nothing of the call is persisted.
C4_MissingChildRaises ==
    [][MissingTargetStep =>
         IF \/ call'.curOp.ID = NoId
            \/ ActionOf(call'.curOp) = "delete" /\ DeletedTarget(call'.curOp)
         THEN call'.pc = "tx" /\ tx' = tx
         ELSE call'.pc = "catch" /\ call'.err = "Record not found" /\ db' = call.before]_vars

C4_Witness ==
    /\ call.pc = "catch" /\ call.err = "Record not found"
    /\ call.curOp \in AttributeOps
    /\ call.curOp.action = "update" /\ call.curOp.ID = 9

\* C14: an attribute or variant op without _action inserts exactly one new,
\* non-deleted row for the product and changes no existing row of either
\* table, also when the op carries the ID of an existing child.
C14_NoActionIsCreate ==
    [][(ChildOpStep /\ call'.curOp.action = Undef) =>
         LET old   == IF call.step = "attrs" THEN tx.attributes ELSE tx.variants
             new   == IF call.step = "attrs" THEN tx'.attributes ELSE tx'.variants
             added == new \ old
         IN  /\ call'.pc = "tx"
             /\ old \subseteq new
             /\ Cardinality(added) = 1
             /\ \A r \in added :
                    /\ r.ProductId = call.pid /\ ~r.Deleted
                    /\ \A o \in old : o.ID # r.ID
             /\ IF call.step = "attrs" THEN tx'.variants = tx.variants
                ELSE tx'.attributes = tx.attributes]_vars

\* an op without _action that carries the ID of attribute 1 has been applied:
\* attribute 1 is as it was and a new attribute holds the values of the op
C14_Witness ==
    /\ call.pc = "tx" /\ call.pid = 1
    /\ call.curOp = AttrOp(Undef, 1, "Color", "Blue")
    /\ Attribute(1, 1, "Size", "M", FALSE) \in tx.attributes
    /\ \E r \in tx.attributes : r.ID >= 4 /\ r.Key = "Color" /\ r.Value = "Blue" /\ ~r.Deleted


\* an upload of the call was refused by the media store
UploadFailed == call.pc # "idle" /\ Cardinality(call.uploaded) < call.nFiles

\* C21: when an upload of a call has failed, the call has opened no
\* transaction and has committed nothing: the store is the store that the
\* call found, and the call is in its catch block or has thrown.
C21_UploadFailureBeforeAnyWrite ==
    UploadFailed =>
        /\ db = call.before
        /\ tx = NoTx
        /\ ~call.committed
        /\ call.pc \in {"catch", "done"}

\* one of two uploads failed and the call has thrown
C21_Witness ==
    /\ UploadFailed /\ call.pc = "done" /\ call.nFiles = 2 /\ Cardinality(call.uploaded) = 1
    /\ call.thrown = "Failed to upload" /\ db = call.before

\* the call has returned or thrown after its transaction committed, and an
\* image that it removed is still in the media store: its destroy failed
PurgeFailed ==
    /\ call.pc = "done" /\ call.committed
    /\ \E u \in call.toPurge : ObjectOf(u) \in call.destroyed /\ ObjectOf(u) \in cloud

\* C22: when a destroy after the commit has failed, the call has thrown
\* nothing and has returned the aggregate as the store holds it, in which the
\* removed image is soft-deleted.
C22_PurgeFailureIsOnlyLogged ==
    PurgeFailed =>
        /\ call.thrown = NoErr
        /\ call.result = FindProductWithLiveChildren(db, call.pid)
        /\ \A u \in call.toPurge :
               \A r \in db.images : (r.ProductId = call.pid /\ r.Url = u) => r.Deleted

C22_Witness ==
    /\ PurgeFailed /\ call.thrown = NoErr /\ db # call.before
    /\ call.result = FindProductWithLiveChildren(db, call.pid)

\* the call is for a product whose row was soft-deleted when it was received
UpdatesSoftDeleted ==
    /\ call.pc # "idle"
    /\ \E p \in call.before.products : p.ID = call.pid /\ p.Deleted

\* C26: an update of a soft-deleted product throws 'Product not found' and
\* leaves the database as it was.
C26_SoftDeletedIsNotFound ==
    (UpdatesSoftDeleted /\ call.pc = "done")
        => call.thrown = "Product not found" /\ db = call.before

\* C27: when an upload of the call failed, no object that the call uploaded
\* stays in the media store once the call has returned.
C27_FailedCallLeavesNoUpload ==
    (UploadFailed /\ call.pc = "done") => call.uploaded \cap cloud = {}

\* the attribute, variant and image rows of d that belong to a product
\* other than pid
RowsOfOthers(d, pid) ==
    [attributes |-> {r \in d.attributes : r.ProductId # pid},
     variants   |-> {r \in d.variants : r.ProductId # pid},
     images     |-> {r \in d.images : r.ProductId # pid}]

\* C30: during and after a call for product P, in the store and in the
\* transaction of the call, the attribute, variant and image rows of the
\* other products are the rows that the call found.
C30_OtherProductsUntouched ==
    call.pc # "idle"
        => /\ RowsOfOthers(db, call.pid) = RowsOfOthers(call.before, call.pid)
           /\ tx # NoTx => RowsOfOthers(tx, call.pid) = RowsOfOthers(call.before, call.pid)

\* a committed call for product 1 removed an image of product 1 and named
\* an image of product 2 as well
C30_Witness ==
    /\ call.pc = "done" /\ call.committed /\ call.pid = 1
    /\ call.imagesToDelete = {ImgA, ImgD}
    /\ \E r \in db.images : r.Url = ImgA /\ r.ProductId = 1 /\ r.Deleted
    /\ \E r \in db.images : r.Url = ImgD /\ r.ProductId = 2 /\ ~r.Deleted

(***************************************************************************)
(* Properties of the update route.                                         *)
(***************************************************************************)
C5Attributes == <<AttrOp("create", NoId, "Color", "Red"), AttrOp("delete", 1, Undef, Undef)>>

C5Request ==
    /\ req.kind = "put" /\ req.pid = 1 /\ req.files = 0
    /\ req.raw = [EmptyBody EXCEPT !.Attributes = ArrV(C5Attributes), !.Variants = ArrV(<<>>)]

\* C5: an update request whose Attributes hold a create op with Key and Value
\* and a delete op with only _action and ID, and whose Variants are empty,
\* is answered with the updated aggregate: it holds the new attribute, it
\* does not hold the deleted one, and the variants are as before.
C5_CreateAndDeleteEndToEnd ==
    C5Request =>
        /\ res.status = 200
        /\ \E a \in res.data.attributes : a.key = "Color" /\ a.value = "Red"
        /\ ~\E a \in res.data.attributes : a.id = 1
        /\ db.variants = InitDb.variants

\* the form fields are such that their parsed values satisfy the schema
WellFormedForm(body) == SchemaAccepts(ParseFormDataFields(body))

\* C7: for a well-formed update request that carries files, the validation
\* middleware calls next() without an error and leaves in req.body the
\* numeric fields as numbers, the list fields as arrays, and no field whose
\* value is the string "undefined".
C7_BodyHoldsParsedValues ==
    (req.kind = "put" /\ req.files > 0 /\ WellFormedForm(req.raw)) =>
        /\ res.next = "ok"
        /\ \A k \in {"Price", "Stock", "MinimumStock", "CategoryId"} :
              req.body[k].t \in {"number", "undefined"}
        /\ \A k \in {"Attributes", "Variants", "imagesToDelete"} :
              req.body[k].t \in {"array", "undefined"}
        /\ \A k \in BodyKeys : req.body[k] # StrV("undefined")

\* the reference that the request misses in the store d, in the order of the
\* lookups: the product, the category, the customer
MissingReference(d, pid, body) ==
    IF ~\E p \in d.products : p.ID = pid THEN "Product not found"
    ELSE IF body.CategoryId.t # "undefined"
            /\ ~\E c \in d.categories : c.ID = JoiNumber("CategoryId", body.CategoryId)
    THEN "Category not found"
    ELSE IF body.CustomerId.t = "string" /\ body.CustomerId.s \notin d.customers \cup {""}
    THEN "Customer not found"
    ELSE NoErr

\* C11: an update that passes validation and names a product, a category or
\* a customer that does not exist is answered 404 with the message that
\* names the missing reference, and the store is as before the request.
C11_MissingReferenceIs404 ==
    (req.kind = "put" /\ res.next = "ok" /\ MissingReference(InitDb, req.pid, req.body) # NoErr) =>
        /\ res.status = 404
        /\ res.message = MissingReference(InitDb, req.pid, req.body)
        /\ db = InitDb


NumericFields == {"Price", "Stock", "MinimumStock", "CategoryId"}

\* C12: a numeric field submitted as a numeric string is stored with the
\* value of the number that the string denotes, and a request with a
\* non-numeric string in a numeric field fails validation and stores nothing.
C12_NumericFieldsCoerced ==
    req.kind = "put" =>
        /\ res.status = 200 =>
               \A k \in NumericFields :
                   req.raw[k].t # "undefined" =>
                       \E p \in db.products : p.ID = req.pid /\ p[k] = JoiNumber(k, req.raw[k])
        /\ (\E k \in NumericFields : req.raw[k].t = "string" /\ JoiNumber(k, req.raw[k]) = NaN) =>
               res.status = 400 /\ db = InitDb


\* the request carries an update or delete op without an ID
HasOpWithoutId(body) ==
    \/ \E i \in DOMAIN OpsOf(body.Attributes) :
          LET op == OpsOf(body.Attributes)[i]
          IN  op.action \in {"update", "delete"} /\ op.ID = NoId
    \/ \E i \in DOMAIN OpsOf(body.Variants) :
          LET op == OpsOf(body.Variants)[i]
          IN  op.action \in {"update", "delete"} /\ op.ID = NoId

\* C13: an update request that holds an update or delete op without an ID is
\* rejected and nothing of the request is persisted.
C13_OpWithoutIdIsRejected ==
    (req.kind = "put" /\ HasOpWithoutId(req.raw)) => (res.status >= 400 /\ db = InitDb)


(***************************************************************************)
(* Properties of the read paths.                                           *)
(***************************************************************************)
\* every child that the mapped product m shows is a live row of the product
LiveChildrenOnly(m) ==
    /\ \A a \in m.attributes : \E r \in db.attributes : r.ID = a.id /\ ~r.Deleted
    /\ \A v \in m.variants : \E r \in db.variants : r.ID = v.id /\ ~r.Deleted
    /\ \A u \in m.images : \E r \in db.images : r.ProductId = m.id /\ r.Url = u /\ ~r.Deleted

\* C6: no read shows a soft-deleted attribute, variant or image among the
\* children of its product: not the listing, not the single-product read, and
\* not the aggregate that the update and the status operation answer.
C6_ReadsHideSoftDeletedChildren ==
    /\ req.kind = "list" => \A i \in DOMAIN res.data : LiveChildrenOnly(res.data[i])
    /\ (req.kind \in {"get", "put", "status"} /\ res.status = 200) => LiveChildrenOnly(res.data)

\* the products of the listing filtered to category c, the other filters being f
ListingOf(c, f) == GetProductsService(db, [f EXCEPT !.category = c]).products

C10_ListingIsPaginated ==
    req.kind = "list" =>
        LET f    == req.filters
            all  == SortById({p \in db.products : Matches(p, BuildProductWhereClause(f))})
            ids  == [i \in DOMAIN all |-> all[i].ID]
            from == (f.page - 1) * f.limit + 1
            to   == IF f.page * f.limit < Len(all) THEN f.page * f.limit ELSE Len(all)
        IN  /\ Len(res.data) <= f.limit
            /\ [i \in DOMAIN res.data |-> res.data[i].id] = SubSeq(ids, from, to)

\* the row of the store that an entry of a listing response stands for
ListedRow(entry) == CHOOSE p \in db.products : p.ID = entry.id

\* the entry satisfies the search, category and supplier filters of f
SatisfiesOtherFilters(entry, f) ==
    /\ f.search # NoSearch =>
           Contains(ListedRow(entry).Name, f.search) \/ Contains(ListedRow(entry).SKU, f.search)
    /\ f.category # NoId => ListedRow(entry).CategoryId = f.category
    /\ f.supplierId # Undef => ListedRow(entry).SupplierId = f.supplierId

\* C20: in the response to a listing request with inStock=true every product
\* has a stock above zero, with inStock=false every product has a stock of
\* zero, and in both cases every product satisfies the search, category and
\* supplier filters of the request.
C20_InStockIsConjoined ==
    (req.kind = "list" /\ req.filters.inStock # Undef) =>
        \A i \in DOMAIN res.data :
            /\ req.filters.inStock = "true" => res.data[i].stock > 0
            /\ req.filters.inStock = "false" => res.data[i].stock <= 0
            /\ SatisfiesOtherFilters(res.data[i], req.filters)

(***************************************************************************)
(* Properties of order creation.                                           *)
(***************************************************************************)
\* C9: in every reachable state the stock of every product is at least zero,
\* also after an order that lists one product in several items and after
\* orders for one product that were created concurrently.
C9_StockNeverNegative == \A p \in db.products : p.Stock >= 0

\* C19: a request to update the status of an order leaves the status of
\* every order that is delivered (3) or cancelled (4) as it is.
C19_DeliveredAndCancelledAreFinal ==
    [][req'.kind = "orderStatus"
          => \A o \in db.orders : o.Status \in {3, 4}
                 => \E n \in db'.orders : n.ID = o.ID /\ n.Status = o.Status]_vars

\* the status transitions that approve, reject and complete are to make
DedicatedTransitions == {<<0, 1>>, <<0, 2>>, <<1, 2>>, <<1, 3>>}

\* C24: every step of an approve, reject or complete request that changes
\* the status of an order makes one of the transitions pending -> approved,
\* pending -> rejected, approved -> rejected, approved -> completed; so no
\* step takes an order out of rejected (2) or completed (3).
C24_OnlyDedicatedTransitions ==
    [][\A o \in db.orders : \A n \in db'.orders :
           (n.ID = o.ID /\ n.Status # o.Status) => <<o.Status, n.Status>> \in DedicatedTransitions]_vars

(***************************************************************************)
(* Properties of category creation.                                        *)
(***************************************************************************)
\* the request that the step has just received, if any
ReceivedCategoryCall == IF Len(cats') = Len(cats) + 1 THEN {cats'[Len(cats')]} ELSE {}

\* C15: a request to create a category that carries an image file and whose
\* name is the name of a category that is not deleted when the service looks
\* the name up is answered with 409 and inserts no row: the step that receives
\* it leaves the store as it is, and the request never reaches the insert.
C15_DuplicateNameIsConflict ==
    /\ [][\A c \in ReceivedCategoryCall :
              (c.image = "file" /\ \E x \in db.categories : x.Name = c.name /\ ~x.Deleted)
                  => c.pc = "failed" /\ c.status = 409 /\ c.created = NoId /\ db' = db]_vars
    /\ [][\A i \in DOMAIN cats : cats[i].status = 409 => cats'[i] = cats[i]]_vars

C15_Witness ==
    \E i \in DOMAIN cats :
        /\ cats[i].name = "Electronics" /\ cats[i].image = "file" /\ cats[i].status = 409 /\ cats[i].created = NoId
        /\ Cardinality({x \in db.categories : x.Name = "Electronics"}) = 1

\* C25: of two requests to create a category with the same name at most
\* one is answered 201, so the rows that they insert are never two live
\* categories with one name.
C25_OneOfTwoCreatesSucceeds ==
    \A i \in DOMAIN cats : \A j \in DOMAIN cats :
        (i # j /\ cats[i].name = cats[j].name /\ cats[i].status = 201)
            => /\ cats[j].status # 201
               /\ ~\E x \in db.categories : \E y \in db.categories :
                      x.ID # y.ID /\ x.Name = y.Name /\ ~x.Deleted /\ ~y.Deleted
                          /\ x.ID = cats[i].created

(***************************************************************************)
(* Properties of product deletion.                                         *)
(***************************************************************************)
\* the rows of the store that belong to product pid: the product and its children
Aggregate(d, pid) ==
    {p \in d.products : p.ID = pid} \cup {r \in d.images : r.ProductId = pid}
        \cup {r \in d.attributes : r.ProductId = pid} \cup {r \in d.variants : r.ProductId = pid}

\* the step in which a request to delete a product is answered
DeleteAnswered == req.kind = "deleting" /\ req'.kind = "deleted"

\* C16: when deleteProductService succeeds, the product and every image,
\* attribute and variant of it are soft-deleted by that one step; when it
\* fails, the store is what it was when the request arrived, and no step
\* before the answer changes the store.
C16_DeleteCascadesAtomically ==
    /\ [][DeleteAnswered /\ res'.status = 200
              => /\ \A r \in Aggregate(db', req.pid) : r.Deleted
                 /\ \E p \in db'.products : p.ID = req.pid
                 /\ Aggregate(db, req.pid) = Aggregate(req.before, req.pid)]_vars
    /\ [][req'.kind = "deleted" /\ res'.status # 200 => db' = req'.before]_vars
    /\ [](req.kind = "deleting" => db = req.before)

\* product 1, whose children were live, has been deleted with all of them
C16_Witness ==
    /\ req.kind = "deleted" /\ req.pid = 1 /\ res.status = 200
    /\ \E r \in Aggregate(req.before, 1) : r.ID = 1 /\ "Key" \in DOMAIN r /\ ~r.Deleted
    /\ \A r \in Aggregate(db, 1) : r.Deleted

\* the transaction of a delete of product 1 was rolled back
C16_WitnessRollback ==
    /\ req.kind = "deleted" /\ req.pid = 1 /\ res.status = 500
    /\ db = req.before

(***************************************************************************)
(* Properties of login and logout.                                         *)
(***************************************************************************)
\* the account id is in its lockout period at time now
InLockout(d, id, now) ==
    \E u \in d.users : u.Id = id /\ u.LockoutEnabled /\ u.LockoutEnd # NoNum /\ now < u.LockoutEnd

\* C17: the fifth or a later login attempt of an account with a wrong
\* password leaves the account locked, and a login attempt that arrives
\* while the account is locked is not answered with a token.
C17_LockedAfterFiveFailures ==
    /\ [][\A id \in UserIdSet :
              (auth'.wrong[id] = auth.wrong[id] + 1 /\ auth'.wrong[id] >= 5)
                  => InLockout(db', id, auth'.now)]_vars
    /\ [][(auth'.attempts = auth.attempts + 1 /\ auth'.last.kind = "login"
              /\ auth'.last.status = 200)
                  => ~InLockout(db, auth'.last.id, auth.now)]_vars

\* C18: in every state, the middleware answers 401 to every token that was
\* issued to a user before a logout of that user, and the tokens that it
\* accepts were issued by a login after the user's last logout.
C18_LogoutInvalidatesTokens ==
    \A token \in auth.tokens :
        /\ token.epoch < auth.logouts[token.id] => AuthStatus(db, token) = 401
        /\ AuthStatus(db, token) = 200 => token.epoch = auth.logouts[token.id]

\* after a logout of u1, a request with a token from before the logout was
\* answered 401 while a token of a later login is accepted
C18_Witness ==
    /\ auth.last.kind = "me" /\ auth.last.id = "u1" /\ auth.last.status = 401
    /\ auth.last.token.epoch < auth.logouts["u1"]
    /\ \E token \in auth.tokens :
           token.id = "u1" /\ token.epoch = auth.logouts["u1"] /\ AuthStatus(db, token) = 200

CategoryWithProducts(d, cid) ==
    {c \in d.categories : c.ID = cid} \cup {p \in d.products : p.CategoryId = cid}

\* C23: the step that answers a category status request with 200 leaves the
\* category and every product of it with Deleted = (status = 'inactive'); a
\* request that is answered otherwise leaves the store as the request found
\* it, and no write is visible before the answer.
C23_CategoryStatusCascadesAtomically ==
    /\ [][(req.kind = "categoryUpdating" /\ req'.kind = "categoryUpdated" /\ res'.status = 200)
              => /\ \A r \in CategoryWithProducts(db', req.cid) :
                        r.Deleted = (req.status = "inactive")
                 /\ \E c \in db'.categories : c.ID = req.cid
                 /\ CategoryWithProducts(db, req.cid) = CategoryWithProducts(req.before, req.cid)]_vars
    /\ [][(req'.kind = "categoryUpdated" /\ res'.status # 200) => db' = req'.before]_vars
    /\ [](req.kind = "categoryUpdating" => db = req.before)

\* category 1 was set inactive while both of its products were active
C23_Witness ==
    /\ req.kind = "categoryUpdated" /\ req.cid = 1 /\ req.status = "inactive" /\ res.status = 200
    /\ \A p \in {x \in req.before.products : x.CategoryId = 1} : ~p.Deleted
    /\ Cardinality({x \in db.products : x.CategoryId = 1 /\ x.Deleted}) = 2
    /\ \A r \in CategoryWithProducts(db, 1) : r.Deleted

\* C28: when a category has been set inactive, setting it active again gives
\* every product the Deleted flag that it had before the category was set
\* inactive.
C28_ReactivationRestoresFlags ==
    [][(/\ CategoryStatusInFlight /\ req.step = "commit" /\ req.status = "inactive"
        /\ res'.status = 200)
           => CascadeToProducts(db'.products, req.cid, FALSE) = db.products]_vars

====
